---- MODULE Spec2Model ----
(***************************************************************************)
(* Format-preserving patch engine of the TOML config editor                *)
(* (src/web-cfg/main.ts).  Texts are sequences of one-character strings,   *)
(* so that the regular expressions of the patcher are modelled by what     *)
(* they match, character by character.                                     *)
(***************************************************************************)
EXTENDS Integers, Sequences, FiniteSets, TLC

VARIABLES
    pc,        \* position of the save request: "recv" | "done" | "idle"
    request,   \* the /save payload in flight: originalText, data, preserve
    oldObj,    \* what toml.parse(originalText) returned to handleSave
    outText,   \* handleSave's outText, as written to the target file
    preserved, \* handleSave's preserved flag, as returned to the caller
    calls,     \* the patchScalarInSection calls walkPatch made, in order
    pArgs,     \* arguments of one direct patchScalarInSection call
    pRet,      \* its return value { text, patched }
    sArg,      \* argument of one direct valueToTomlScalar call
    sRet,      \* its return value
    nText,     \* the text readTomlFile read from the file
    relaxed,   \* readTomlFile's relaxed: the text it hands to toml.parse
    nData,     \* the data readTomlFile returns: toml.parse(relaxed)
    nAgain,    \* the normalizer's output for relaxed as its input
    app,       \* the AppConfig parseArgs made: root, authUser, authPass
    httpReq,   \* the HTTP request in flight
    files,     \* the files on disk: path -> text
    dirs,      \* the directories on disk
    fsOps,     \* the file operations the handlers made: read, mkdir, write
    response,  \* the HTTP response
    clients    \* two browser sessions editing one file

saveVars == <<request, oldObj, outText, preserved, calls>>
patchVars == <<pArgs, pRet>>
scalarVars == <<sArg, sRet>>
normVars == <<nText, relaxed, nData, nAgain>>

httpVars == <<app, httpReq, files, dirs, fsOps, response>>
concVars == <<clients>>

vars ==
    <<pc, saveVars, patchVars, scalarVars, normVars, httpVars, concVars>>

----------------------------------------------------------------------------
(* Bounds *)

\* lines of a document
MaxLines == 3
\* characters of a string value
MaxStrLen == 3
\* magnitude of a number value
MaxNum == 12

----------------------------------------------------------------------------
(* Characters and strings *)

\* the characters JavaScript's \s matches, among those the model uses
IsSpace(c) == c \in {" ", "\t", "\r", "\n"}

\* the characters JavaScript's . does not match
IsLineTerminator(c) == c \in {"\n", "\r"}

\* String.prototype.trim
Trim(s) ==
    LET nonWs == {i \in 1..Len(s) : ~IsSpace(s[i])}
    IN  IF nonWs = {} THEN <<>>
        ELSE SubSeq(s, CHOOSE i \in nonWs : \A j \in nonWs : i <= j,
                       CHOOSE i \in nonWs : \A j \in nonWs : j <= i)

\* text.split(/\r?\n/)
Split(text) ==
    LET nl     == {i \in 1..Len(text) : text[i] = "\n"}
        n      == Cardinality(nl)
        pos(k) == CHOOSE i \in nl : Cardinality({j \in nl : j < i}) = k - 1
        from(k) == IF k = 1 THEN 1 ELSE pos(k - 1) + 1
        to(k)  == IF k = n + 1 THEN Len(text)
                  ELSE IF pos(k) - 1 >= from(k) /\ text[pos(k) - 1] = "\r"
                       THEN pos(k) - 2
                       ELSE pos(k) - 1
    IN  [k \in 1..(n + 1) |-> SubSeq(text, from(k), to(k))]

\* lines.join(sep)
RECURSIVE Join(_, _)
Join(lines, sep) ==
    IF Len(lines) = 0 THEN <<>>
    ELSE IF Len(lines) = 1 THEN lines[1]
    ELSE lines[1] \o sep \o Join(Tail(lines), sep)

LF == <<"\n">>
CRLF == <<"\r", "\n">>
DOT == <<".">>

----------------------------------------------------------------------------
(* patchScalarInSection *)

NoMatch == [matched |-> FALSE]

\* lines[i].match(sectionHeaderRe), sectionHeaderRe = /^\s*\[([^\]]+)\]\s*$/ ;
\* name is the capture group m[1]
MatchSectionHeader(line) ==
    LET t == Trim(line)
    IN  IF /\ Len(t) >= 3
           /\ t[1] = "["
           /\ t[Len(t)] = "]"
           /\ \A i \in 2..(Len(t) - 1) : t[i] # "]"
        THEN [matched |-> TRUE, name |-> SubSeq(t, 2, Len(t) - 1)]
        ELSE NoMatch

\* lines[i].match(keyRe), keyRe = ^(\s*)(key)\s*=\s*([^#]*)(\s*(#.*)?)$ for a
\* bare key (the escaping expression leaves a bare key as it is).
\* indent is group 1 and tail is group 4: [^#]* is greedy, so it takes the
\* whole value and the blanks after it, and group 4 starts at the first '#'.
MatchKey(line, key) ==
    LET lead   == {i \in 1..Len(line) : ~IsSpace(line[i])}
        first  == IF lead = {} THEN Len(line) + 1
                  ELSE CHOOSE i \in lead : \A j \in lead : i <= j
        afterK == first + Len(key)
        rest   == {i \in afterK..Len(line) : ~IsSpace(line[i])}
        eq     == IF rest = {} THEN 0
                  ELSE CHOOSE i \in rest : \A j \in rest : i <= j
        hashes == {i \in (eq + 1)..Len(line) : line[i] = "#"}
        hash   == IF hashes = {} THEN Len(line) + 1
                  ELSE CHOOSE i \in hashes : \A j \in hashes : i <= j
    IN  IF /\ afterK - 1 <= Len(line)
           /\ SubSeq(line, first, afterK - 1) = key
           /\ eq # 0
           /\ line[eq] = "="
           /\ \A i \in (hash + 1)..Len(line) : ~IsLineTerminator(line[i])
        THEN [matched |-> TRUE,
              indent  |-> SubSeq(line, 1, first - 1),
              tail    |-> SubSeq(line, hash, Len(line))]
        ELSE NoMatch

\* PatchLoop without the break after a rewrite: every matching line of the
\* section is rewritten
RECURSIVE PatchLoopNoBreak(_, _, _, _, _, _)
PatchLoopNoBreak(lines, i, inSection, targetHeader, key, newValToml) ==
    IF i > Len(lines)
    THEN [lines |-> lines, patched |-> FALSE, idx |-> 0]
    ELSE LET m == MatchSectionHeader(lines[i])
         IN  IF m.matched
             THEN PatchLoopNoBreak(lines, i + 1, Trim(m.name) = targetHeader,
                                   targetHeader, key, newValToml)
             ELSE IF ~inSection
             THEN PatchLoopNoBreak(lines, i + 1, inSection, targetHeader, key,
                                   newValToml)
             ELSE LET km == MatchKey(lines[i], key)
                  IN  IF km.matched
                      THEN LET r == PatchLoopNoBreak(
                                      [lines EXCEPT ![i] =
                                          km.indent \o key \o <<" ", "=", " ">>
                                            \o newValToml \o km.tail],
                                      i + 1, inSection, targetHeader, key,
                                      newValToml)
                           IN  [lines |-> r.lines, patched |-> TRUE, idx |-> i]
                      ELSE PatchLoopNoBreak(lines, i + 1, inSection,
                                            targetHeader, key, newValToml)

\* one iteration of the for loop at line index i, and the iterations after it;
\* idx is the index of the rewritten line, 0 for none
RECURSIVE PatchLoop(_, _, _, _, _, _)
PatchLoop(lines, i, inSection, targetHeader, key, newValToml) ==
    IF i > Len(lines)
    THEN [lines |-> lines, patched |-> FALSE, idx |-> 0]
    ELSE LET m == MatchSectionHeader(lines[i])
         IN  IF m.matched
             THEN PatchLoop(lines, i + 1, Trim(m.name) = targetHeader,
                            targetHeader, key, newValToml)
             ELSE IF ~inSection
             THEN PatchLoop(lines, i + 1, inSection, targetHeader, key,
                            newValToml)
             ELSE LET km == MatchKey(lines[i], key)
                  IN  IF km.matched
                      THEN [lines   |-> [lines EXCEPT ![i] =
                                           km.indent \o key \o <<" ", "=", " ">>
                                             \o newValToml \o km.tail],
                            patched |-> TRUE,
                            idx     |-> i]
                      ELSE IF MatchSectionHeader(lines[i]).matched
                      THEN [lines |-> lines, patched |-> FALSE, idx |-> 0]
                      ELSE PatchLoop(lines, i + 1, inSection, targetHeader,
                                     key, newValToml)

patchScalarInSection(text, sectionPath, key, newValToml) ==
    LET r == PatchLoop(Split(text), 1, Len(sectionPath) = 0,
                       Join(sectionPath, DOT), key, newValToml)
    IN  [text |-> Join(r.lines, LF), patched |-> r.patched, idx |-> r.idx]

----------------------------------------------------------------------------
(* Values (type Json) *)

\* no value yet
None == [kind |-> "none"]

Null == [kind |-> "null"]
Undefined == [kind |-> "undefined"]
Bool(b) == [kind |-> "bool", b |-> b]
\* a finite number (the model has integers)
Num(n) == [kind |-> "num", finite |-> TRUE, n |-> n]
\* NaN (sign 0), +Infinity (sign 1), -Infinity (sign -1)
NonFinite(sign) == [kind |-> "num", finite |-> FALSE, n |-> sign]
Str(s) == [kind |-> "str", s |-> s]
Arr(items) == [kind |-> "arr", items |-> items]
\* an object: its entries <<key, value>> in insertion order
Tab(ents) == [kind |-> "tab", ents |-> ents]

ObjectKeys(t) == [i \in 1..Len(t.ents) |-> t.ents[i][1]]
HasKey(t, k) == \E i \in 1..Len(t.ents) : t.ents[i][1] = k
\* obj[k]
Get(t, k) ==
    IF HasKey(t, k)
    THEN t.ents[CHOOSE i \in 1..Len(t.ents) : t.ents[i][1] = k][2]
    ELSE Undefined
\* obj[k] = v
Put(t, k, v) ==
    IF HasKey(t, k)
    THEN Tab([i \in 1..Len(t.ents) |->
                 IF t.ents[i][1] = k THEN <<k, v>> ELSE t.ents[i]])
    ELSE Tab(Append(t.ents, <<k, v>>))
\* delete obj[k]
Remove(t, k) == Tab(SelectSeq(t.ents, LAMBDA e : e[1] # k))

----------------------------------------------------------------------------
(* valueToTomlScalar *)

DigitChars == <<"0", "1", "2", "3", "4", "5", "6", "7", "8", "9">>

RECURSIVE NatToString(_)
NatToString(n) ==
    IF n < 10 THEN <<DigitChars[n + 1]>>
    ELSE NatToString(n \div 10) \o <<DigitChars[(n % 10) + 1]>>

\* String(v) of a finite integer number
NumberToString(n) == IF n < 0 THEN <<"-">> \o NatToString(-n) ELSE NatToString(n)

\* s.replace(/c/g, rep) for a one-character pattern
RECURSIVE ReplaceAll(_, _, _)
ReplaceAll(s, c, rep) ==
    IF s = <<>> THEN <<>>
    ELSE (IF Head(s) = c THEN rep ELSE <<Head(s)>>) \o ReplaceAll(Tail(s), c, rep)

quoteTomlString(s) ==
    <<"\"">> \o ReplaceAll(ReplaceAll(s, "\\", <<"\\", "\\">>),
                           "\"", <<"\\", "\"">>)
             \o <<"\"">>

\* the null return of valueToTomlScalar: "not patchable"
NotPatchable == <<"not patchable">>

\* valueToTomlScalar with strings quoted as they are, nothing escaped
valueToTomlScalarUnescaped(v) ==
    IF v.kind = "null" THEN <<"n", "u", "l", "l">>
    ELSE IF v.kind = "bool"
    THEN (IF v.b THEN <<"t", "r", "u", "e">> ELSE <<"f", "a", "l", "s", "e">>)
    ELSE IF v.kind = "num"
    THEN (IF v.finite THEN NumberToString(v.n) ELSE <<"0">>)
    ELSE IF v.kind = "str" THEN <<"\"">> \o v.s \o <<"\"">>
    ELSE NotPatchable

valueToTomlScalar(v) ==
    IF v.kind = "null" THEN <<"n", "u", "l", "l">>
    ELSE IF v.kind = "bool"
    THEN (IF v.b THEN <<"t", "r", "u", "e">> ELSE <<"f", "a", "l", "s", "e">>)
    ELSE IF v.kind = "num"
    THEN (IF v.finite THEN NumberToString(v.n) ELSE <<"0">>)
    ELSE IF v.kind = "str" THEN quoteTomlString(v.s)
    ELSE NotPatchable

----------------------------------------------------------------------------
(* walkPatch *)

\* new Set([...Object.keys(oldObj), ...Object.keys(newObj)]) in iteration order
UnionKeys(old, new) ==
    ObjectKeys(old) \o SelectSeq(ObjectKeys(new), LAMBDA k : ~HasKey(old, k))

\* WalkKeys is the for loop over keys from index i on; acc holds outText and
\* patchedAny, and the list of patchScalarInSection calls made so far
RECURSIVE walkPatch(_, _, _, _), WalkKeys(_, _, _, _, _, _),
          WalkKeysNewSideOnly(_, _, _, _, _, _)

\* WalkKeys without the test of the old value: a key is patched whenever its
\* new value is a scalar
WalkKeysNewSideOnly(keys, i, acc, old, new, pathAcc) ==
    IF i > Len(keys) THEN acc
    ELSE
    LET k         == keys[i]
        oldVal    == Get(old, k)
        newVal    == Get(new, k)
        newScalar == valueToTomlScalar(newVal)
        oldScalar == valueToTomlScalar(oldVal)
    IN  IF newScalar # NotPatchable
        THEN LET res == patchScalarInSection(acc.text, pathAcc, k, newScalar)
             IN  WalkKeysNewSideOnly(keys, i + 1,
                     [text       |-> res.text,
                      patchedAny |-> acc.patchedAny \/ res.patched,
                      calls      |-> Append(acc.calls,
                                       [text    |-> acc.text,
                                        path    |-> pathAcc,
                                        key     |-> k,
                                        lit     |-> newScalar,
                                        oldLit  |-> oldScalar,
                                        patched |-> res.patched,
                                        idx     |-> res.idx])],
                     old, new, pathAcc)
        ELSE IF newVal.kind = "tab" /\ oldVal.kind = "tab"
        THEN LET res == walkPatch(acc.text, oldVal, newVal, pathAcc \o <<k>>)
             IN  WalkKeysNewSideOnly(keys, i + 1,
                     [text       |-> res.text,
                      patchedAny |-> acc.patchedAny \/ res.patchedAny,
                      calls      |-> acc.calls \o res.calls],
                     old, new, pathAcc)
        ELSE WalkKeysNewSideOnly(keys, i + 1, acc, old, new, pathAcc)

WalkKeys(keys, i, acc, old, new, pathAcc) ==
    IF i > Len(keys) THEN acc
    ELSE
    LET k         == keys[i]
        oldVal    == Get(old, k)
        newVal    == Get(new, k)
        newScalar == valueToTomlScalar(newVal)
        oldScalar == valueToTomlScalar(oldVal)
    IN  IF newScalar # NotPatchable /\ oldScalar # NotPatchable
        THEN LET res == patchScalarInSection(acc.text, pathAcc, k, newScalar)
             IN  WalkKeys(keys, i + 1,
                     [text       |-> res.text,
                      patchedAny |-> acc.patchedAny \/ res.patched,
                      calls      |-> Append(acc.calls,
                                       [text    |-> acc.text,
                                        path    |-> pathAcc,
                                        key     |-> k,
                                        lit     |-> newScalar,
                                        oldLit  |-> oldScalar,
                                        patched |-> res.patched,
                                        idx     |-> res.idx])],
                     old, new, pathAcc)
        ELSE IF newVal.kind = "tab" /\ oldVal.kind = "tab"
        THEN LET res == walkPatch(acc.text, oldVal, newVal, pathAcc \o <<k>>)
             IN  WalkKeys(keys, i + 1,
                     [text       |-> res.text,
                      patchedAny |-> acc.patchedAny \/ res.patchedAny,
                      calls      |-> acc.calls \o res.calls],
                     old, new, pathAcc)
        ELSE WalkKeys(keys, i + 1, acc, old, new, pathAcc)

walkPatch(text, old, new, pathAcc) ==
    WalkKeys(UnionKeys(old, new), 1,
             [text |-> text, patchedAny |-> FALSE, calls |-> <<>>],
             old, new, pathAcc)

----------------------------------------------------------------------------
(* toml.parse, the document parser handleSave calls, for the TOML the model's *)
(* documents are written in: comments, [table] and [[array of tables]]        *)
(* headers, bare and quoted keys, integers, booleans, basic strings, arrays   *)

Letters ==
    {"a", "b", "c", "d", "e", "f", "g", "h", "i", "j", "k", "l", "m",
     "n", "o", "p", "q", "r", "s", "t", "u", "v", "w", "x", "y", "z"}
Digits == {DigitChars[i] : i \in 1..10}
IsBareKeyChar(c) == c \in Letters \cup Digits \cup {"_", "-"}

Min(S) == CHOOSE i \in S : \A j \in S : i <= j

Fail == [ok |-> FALSE]

\* nothing but blanks and a comment
IsLineEnd(s) == LET t == Trim(s) IN t = <<>> \/ t[1] = "#"

RECURSIVE StringToNat(_)
StringToNat(s) ==
    IF s = <<>> THEN 0
    ELSE 10 * StringToNat(SubSeq(s, 1, Len(s) - 1))
           + ((CHOOSE d \in 1..10 : DigitChars[d] = s[Len(s)]) - 1)

IsInteger(s) ==
    /\ s # <<>>
    /\ \A i \in 1..Len(s) : s[i] \in Digits
    /\ (Len(s) > 1 => s[1] # "0")

\* a value that is not a string or an array
ParseToken(tok) ==
    LET signed == tok # <<>> /\ tok[1] \in {"+", "-"}
        body   == IF signed THEN Tail(tok) ELSE tok
    IN  IF tok = <<"t", "r", "u", "e">> THEN [ok |-> TRUE, val |-> Bool(TRUE)]
        ELSE IF tok = <<"f", "a", "l", "s", "e">>
        THEN [ok |-> TRUE, val |-> Bool(FALSE)]
        ELSE IF IsInteger(body)
        THEN [ok |-> TRUE,
              val |-> Num(IF signed /\ tok[1] = "-" THEN 0 - StringToNat(body)
                          ELSE StringToNat(body))]
        ELSE IF body = <<"i", "n", "f">>
        THEN [ok |-> TRUE,
              val |-> NonFinite(IF signed /\ tok[1] = "-" THEN -1 ELSE 1)]
        ELSE IF body = <<"n", "a", "n">>
        THEN [ok |-> TRUE, val |-> NonFinite(0)]
        ELSE Fail

\* a basic string from the character after its opening quote; next is the
\* index after the closing quote
RECURSIVE ScanString(_, _, _)
ScanString(s, i, acc) ==
    IF i > Len(s) THEN Fail
    ELSE IF s[i] = "\"" THEN [ok |-> TRUE, val |-> Str(acc), next |-> i + 1]
    ELSE IF s[i] = "\\"
    THEN IF i + 1 > Len(s) THEN Fail
         ELSE IF s[i + 1] \in {"\\", "\""}
         THEN ScanString(s, i + 2, Append(acc, s[i + 1]))
         ELSE IF s[i + 1] = "n" THEN ScanString(s, i + 2, Append(acc, "\n"))
         ELSE IF s[i + 1] = "t" THEN ScanString(s, i + 2, Append(acc, "\t"))
         ELSE IF s[i + 1] = "r" THEN ScanString(s, i + 2, Append(acc, "\r"))
         ELSE Fail
    ELSE IF IsLineTerminator(s[i]) THEN Fail
    ELSE ScanString(s, i + 1, Append(acc, s[i]))

\* s.split(c) for a one-character separator
SplitOn(s, c) ==
    LET at     == {i \in 1..Len(s) : s[i] = c}
        n      == Cardinality(at)
        pos(k) == CHOOSE i \in at : Cardinality({j \in at : j < i}) = k - 1
    IN  [k \in 1..(n + 1) |->
            SubSeq(s, IF k = 1 THEN 1 ELSE pos(k - 1) + 1,
                      IF k = n + 1 THEN Len(s) ELSE pos(k) - 1)]

\* the value at the start of s (s starts with a non-blank character)
ParseValue(s) ==
    IF s[1] = "\"" THEN ScanString(s, 2, <<>>)
    ELSE IF s[1] = "["
    THEN LET closes == {i \in 2..Len(s) : s[i] = "]"}
         IN  IF closes = {} THEN Fail
             ELSE LET close == Min(closes)
                      parts == SplitOn(SubSeq(s, 2, close - 1), ",")
                      elems == SelectSeq([i \in 1..Len(parts) |-> Trim(parts[i])],
                                         LAMBDA e : e # <<>>)
                      items == [i \in 1..Len(elems) |-> ParseToken(elems[i])]
                  IN  IF \A i \in 1..Len(items) : items[i].ok
                      THEN [ok   |-> TRUE,
                            val  |-> Arr([i \in 1..Len(items) |-> items[i].val]),
                            next |-> close + 1]
                      ELSE Fail
    ELSE LET stops == {i \in 1..Len(s) : IsSpace(s[i]) \/ s[i] = "#"}
             end   == IF stops = {} THEN Len(s) ELSE Min(stops) - 1
             r     == ParseToken(SubSeq(s, 1, end))
         IN  IF r.ok THEN [ok |-> TRUE, val |-> r.val, next |-> end + 1]
             ELSE Fail

\* the dotted name of a header as a path of bare keys
ParseHeaderName(name) ==
    LET parts == SplitOn(name, ".")
        path  == [i \in 1..Len(parts) |-> Trim(parts[i])]
    IN  IF \A i \in 1..Len(path) :
              path[i] # <<>> /\ \A j \in 1..Len(path[i]) : IsBareKeyChar(path[i][j])
        THEN [ok |-> TRUE, path |-> path]
        ELSE Fail

BadLine == [t |-> "bad"]

\* key = value [# comment], from the trimmed line t
ParsePair(t) ==
    LET quoted == t[1] = "\""
        qEnd   == {i \in 2..Len(t) : t[i] = "\""}
        nonKey == {i \in 1..Len(t) : ~IsBareKeyChar(t[i])}
        kFrom  == IF quoted THEN 2 ELSE 1
        kTo    == IF quoted THEN (IF qEnd = {} THEN 0 ELSE Min(qEnd) - 1)
                  ELSE (IF nonKey = {} THEN Len(t) ELSE Min(nonKey) - 1)
        after  == IF quoted THEN kTo + 2 ELSE kTo + 1
        rest   == {i \in after..Len(t) : ~IsSpace(t[i])}
    IN  IF kTo < kFrom \/ rest = {} THEN BadLine
        ELSE IF t[Min(rest)] # "=" THEN BadLine
        ELSE LET vs == {i \in (Min(rest) + 1)..Len(t) : ~IsSpace(t[i])}
             IN  IF vs = {} THEN BadLine
                 ELSE LET v == SubSeq(t, Min(vs), Len(t))
                          r == ParseValue(v)
                      IN  IF r.ok /\ IsLineEnd(SubSeq(v, r.next, Len(v)))
                          THEN [t   |-> "pair",
                                key |-> SubSeq(t, kFrom, kTo),
                                val |-> r.val]
                          ELSE BadLine

\* one line of the document
ParseLine(line) ==
    LET t == Trim(line)
    IN  IF t = <<>> THEN [t |-> "blank"]
        ELSE IF t[1] = "#" THEN [t |-> "blank"]
        ELSE IF Len(t) >= 2 /\ t[1] = "[" /\ t[2] = "["
        THEN LET closes == {i \in 3..(Len(t) - 1) : t[i] = "]" /\ t[i + 1] = "]"}
             IN  IF closes = {} THEN BadLine
                 ELSE LET h == ParseHeaderName(SubSeq(t, 3, Min(closes) - 1))
                      IN  IF h.ok /\ IsLineEnd(SubSeq(t, Min(closes) + 2, Len(t)))
                          THEN [t |-> "tableArray", path |-> h.path]
                          ELSE BadLine
        ELSE IF t[1] = "["
        THEN LET closes == {i \in 2..Len(t) : t[i] = "]"}
             IN  IF closes = {} THEN BadLine
                 ELSE LET h == ParseHeaderName(SubSeq(t, 2, Min(closes) - 1))
                      IN  IF h.ok /\ IsLineEnd(SubSeq(t, Min(closes) + 1, Len(t)))
                          THEN [t |-> "table", path |-> h.path]
                          ELSE BadLine
        ELSE ParsePair(t)

Front(path) == SubSeq(path, 1, Len(path) - 1)
IsPrefix(p, q) == Len(p) <= Len(q) /\ SubSeq(q, 1, Len(p)) = p

Bad == [kind |-> "bad"]

\* the table a path of keys leads to, going through the last element of an
\* array of tables: Undefined when a key is missing, Bad when a value that is
\* not a table is in the way
RECURSIVE TableAt(_, _)
TableAt(t, path) ==
    IF path = <<>> THEN t
    ELSE LET c == Get(t, Head(path))
             d == IF c.kind = "arr" /\ c.items # <<>>
                  THEN c.items[Len(c.items)] ELSE c
         IN  IF d.kind = "tab" THEN TableAt(d, Tail(path))
             ELSE IF c.kind = "undefined" THEN Undefined
             ELSE Bad

\* t with the table at path replaced by nt; missing tables are created
RECURSIVE WithTableAt(_, _, _)
WithTableAt(t, path, nt) ==
    IF path = <<>> THEN nt
    ELSE LET c == Get(t, Head(path))
         IN  IF c.kind = "arr"
             THEN Put(t, Head(path),
                      Arr([c.items EXCEPT ![Len(c.items)] =
                              WithTableAt(c.items[Len(c.items)], Tail(path), nt)]))
             ELSE IF c.kind = "tab"
             THEN Put(t, Head(path), WithTableAt(c, Tail(path), nt))
             ELSE Put(t, Head(path), WithTableAt(Tab(<<>>), Tail(path), nt))

ParseError == [kind |-> "parseError"]

\* the parser's state after one more line: the tree, the current table, the
\* tables defined by a header, the arrays of tables, and whether it failed.
\* lax: a repeated key overwrites the earlier value instead of being an error
ParseStep(acc, pl, lax) ==
    IF pl.t = "blank" THEN acc
    ELSE IF pl.t = "bad" THEN [acc EXCEPT !.ok = FALSE]
    ELSE IF pl.t = "pair"
    THEN LET tbl == TableAt(acc.root, acc.cur)
             old == Get(tbl, pl.key)
         IN  IF old.kind = "undefined" \/ (lax /\ old.kind \notin {"tab", "arr"})
             THEN [acc EXCEPT !.root = WithTableAt(acc.root, acc.cur,
                                                   Put(tbl, pl.key, pl.val))]
             ELSE [acc EXCEPT !.ok = FALSE]
    ELSE
    LET parent == TableAt(acc.root, Front(pl.path))
        par    == IF parent.kind = "tab" THEN parent ELSE Tab(<<>>)
        last   == pl.path[Len(pl.path)]
        v      == Get(par, last)
    IN  IF parent.kind = "bad" THEN [acc EXCEPT !.ok = FALSE]
        ELSE IF pl.t = "table"
        THEN IF pl.path \notin acc.defined /\ v.kind \in {"undefined", "tab"}
             THEN [acc EXCEPT
                      !.root = IF v.kind = "tab" THEN acc.root
                               ELSE WithTableAt(acc.root, pl.path, Tab(<<>>)),
                      !.cur = pl.path,
                      !.defined = acc.defined \cup {pl.path}]
             ELSE [acc EXCEPT !.ok = FALSE]
        ELSE IF v.kind = "undefined"
        THEN [acc EXCEPT
                 !.root = WithTableAt(acc.root, Front(pl.path),
                                      Put(par, last, Arr(<<Tab(<<>>)>>))),
                 !.cur = pl.path,
                 !.tableArrays = acc.tableArrays \cup {pl.path}]
        ELSE IF v.kind = "arr" /\ pl.path \in acc.tableArrays
        THEN [acc EXCEPT
                 !.root = WithTableAt(acc.root, Front(pl.path),
                                      Put(par, last,
                                          Arr(Append(v.items, Tab(<<>>))))),
                 !.cur = pl.path,
                 !.defined = {d \in acc.defined : ~IsPrefix(pl.path, d)}]
        ELSE [acc EXCEPT !.ok = FALSE]

RECURSIVE ParseFrom(_, _, _, _)
ParseFrom(lines, i, acc, lax) ==
    IF ~acc.ok THEN ParseError
    ELSE IF i > Len(lines) THEN acc.root
    ELSE ParseFrom(lines, i + 1, ParseStep(acc, ParseLine(lines[i]), lax), lax)

tomlParse(text, lax) ==
    ParseFrom(Split(text), 1,
              [root |-> Tab(<<>>), cur |-> <<>>, defined |-> {},
               tableArrays |-> {}, ok |-> TRUE],
              lax)

\* what toml.parse(text) may return or throw: TOML makes a repeated key an
\* error, a parser that merges the pairs of a table keeps the last value
ParseOutcomes(text) == {tomlParse(text, FALSE), tomlParse(text, TRUE)}

----------------------------------------------------------------------------
(* toToml: toml.stringify, the fallback serializer *)

IsTableArray(v) ==
    v.kind = "arr" /\ v.items # <<>>
        /\ \A i \in 1..Len(v.items) : v.items[i].kind = "tab"

\* a value on the right of '='
RECURSIVE StringifyValue(_)
StringifyValue(v) ==
    IF v.kind = "bool"
    THEN (IF v.b THEN <<"t", "r", "u", "e">> ELSE <<"f", "a", "l", "s", "e">>)
    ELSE IF v.kind = "num"
    THEN (IF v.finite THEN NumberToString(v.n)
          ELSE IF v.n = 0 THEN <<"n", "a", "n">>
          ELSE IF v.n > 0 THEN <<"i", "n", "f">>
          ELSE <<"-", "i", "n", "f">>)
    ELSE IF v.kind = "str"
    THEN <<"\"">> \o ReplaceAll(ReplaceAll(ReplaceAll(v.s, "\\", <<"\\", "\\">>),
                                           "\"", <<"\\", "\"">>),
                                "\n", <<"\\", "n">>)
                  \o <<"\"">>
    ELSE IF v.kind = "arr"
    THEN <<"[">> \o Join([i \in 1..Len(v.items) |-> StringifyValue(v.items[i])],
                         <<",">>)
                 \o <<"]">>
    ELSE <<>>

\* the lines of a table: its own pairs first, then its sub-tables and arrays
\* of tables, each under its header
RECURSIVE TableLines(_, _), SubTableLines(_, _, _), ElementLines(_, _, _)
TableLines(t, path) ==
    LET own == SelectSeq(t.ents, LAMBDA e :
                   e[2].kind \in {"bool", "num", "str"}
                     \/ (e[2].kind = "arr" /\ ~IsTableArray(e[2])))
    IN  [i \in 1..Len(own) |->
            own[i][1] \o <<" ", "=", " ">> \o StringifyValue(own[i][2])]
        \o SubTableLines(t, path, 1)
SubTableLines(t, path, i) ==
    IF i > Len(t.ents) THEN <<>>
    ELSE LET v == t.ents[i][2]
             p == path \o <<t.ents[i][1]>>
         IN  (IF v.kind = "tab"
              THEN << <<>>, <<"[">> \o Join(p, DOT) \o <<"]">> >>
                     \o TableLines(v, p)
              ELSE IF IsTableArray(v) THEN ElementLines(v.items, p, 1)
              ELSE <<>>)
             \o SubTableLines(t, path, i + 1)
ElementLines(items, p, i) ==
    IF i > Len(items) THEN <<>>
    ELSE << <<>>, <<"[", "[">> \o Join(p, DOT) \o <<"]", "]">> >>
           \o TableLines(items[i], p)
           \o ElementLines(items, p, i + 1)

toToml(data) ==
    LET lines == TableLines(data, <<>>)
    IN  IF lines = <<>> THEN <<>> ELSE Join(lines, LF) \o LF

----------------------------------------------------------------------------
(* readTomlFile: the normalizer that quotes bare string values before the     *)
(* text is parsed                                                              *)

\* the index after the longest run of characters of set that starts at s[i]
RECURSIVE RunEnd(_, _, _)
RunEnd(s, i, set) ==
    IF i <= Len(s) /\ s[i] \in set THEN RunEnd(s, i + 1, set) ELSE i

\* s[i..] starts with one character of each set of shape, in order
MatchShape(s, i, shape) ==
    /\ i + Len(shape) - 1 <= Len(s)
    /\ \A k \in 1..Len(shape) : s[i + k - 1] \in shape[k]

\* /^(true|false)$/i
IsBooleanText(s) ==
    \/ MatchShape(s, 1, <<{"t", "T"}, {"r", "R"}, {"u", "U"}, {"e", "E"}>>)
         /\ Len(s) = 4
    \/ MatchShape(s, 1, <<{"f", "F"}, {"a", "A"}, {"l", "L"}, {"s", "S"},
                          {"e", "E"}>>)
         /\ Len(s) = 5

\* /^[+-]?\d[\d_]*(\.\d[\d_]*)?([eE][+-]?\d+)?$/
IsNumberText(s) ==
    LET a == IF s # <<>> /\ s[1] \in {"+", "-"} THEN 2 ELSE 1
        b == RunEnd(s, a, Digits \cup {"_"})
        c == IF MatchShape(s, b, <<{"."}, Digits>>)
             THEN RunEnd(s, b + 1, Digits \cup {"_"}) ELSE b
        d == IF MatchShape(s, c, <<{"e", "E"}, {"+", "-"}, Digits>>)
             THEN RunEnd(s, c + 2, Digits)
             ELSE IF MatchShape(s, c, <<{"e", "E"}, Digits>>)
             THEN RunEnd(s, c + 1, Digits)
             ELSE c
    IN  MatchShape(s, a, <<Digits>>) /\ d = Len(s) + 1

\* /^\d{4}-\d{2}-\d{2}(?:[ tT]\d{2}:\d{2}(?::\d{2}(?:\.\d{1,6})?)?
\*   (?:Z|[+-]\d{2}:\d{2})?)?$/
IsDateText(s) ==
    LET D   == Digits
        sec == IF MatchShape(s, 17, <<{":"}, D, D>>) THEN 20 ELSE 17
        fr  == IF sec = 20 /\ MatchShape(s, 20, <<{"."}, D>>)
               THEN RunEnd(s, 21, D) ELSE sec
    IN  /\ MatchShape(s, 1, <<D, D, D, D, {"-"}, D, D, {"-"}, D, D>>)
        /\ \/ Len(s) = 10
           \/ /\ MatchShape(s, 11, <<{" ", "t", "T"}, D, D, {":"}, D, D>>)
              /\ fr - sec <= 7
              /\ \/ fr = Len(s) + 1
                 \/ MatchShape(s, fr, <<{"Z"}>>) /\ fr = Len(s)
                 \/ MatchShape(s, fr, <<{"+", "-"}, D, D, {":"}, D, D>>)
                      /\ fr + 5 = Len(s)

looksLikeBareString(v) ==
    LET trimmed == Trim(v)
    IN  IF trimmed # <<>> /\ trimmed[1] \in {"\"", "'"} THEN FALSE
        ELSE IF trimmed # <<>> /\ trimmed[1] \in {"[", "{"} THEN FALSE
        ELSE IF IsBooleanText(trimmed) THEN FALSE
        ELSE IF IsNumberText(trimmed) THEN FALSE
        ELSE IF IsDateText(trimmed) THEN FALSE
        ELSE IF Len(trimmed) = 0 THEN FALSE
        ELSE TRUE

\* line.match(assignRe), assignRe =
\*   /^(\s*[^#\s][^=]*?[^=\s]\s*=\s*)([^#"'\[\{#][^#]*?)(\s*(#.*)?)$/ ;
\* lhs, rawVal and tail are the groups 1, 2 and 3.  The '=' is the first one
\* after the first non-blank character, with a non-blank between them.  The
\* value starts at the first non-blank after '=', or, when that character is
\* one the class excludes, at the blank before it; it ends at the last
\* non-blank before the first '#'.
MatchAssign(line) ==
    LET nonWs == {i \in 1..Len(line) : ~IsSpace(line[i])}
        c1    == IF nonWs = {} THEN 0 ELSE Min(nonWs)
        eqs   == {i \in (c1 + 1)..Len(line) : line[i] = "="}
        eq    == IF c1 = 0 \/ eqs = {} THEN 0 ELSE Min(eqs)
        after == {i \in (eq + 1)..Len(line) : ~IsSpace(line[i])}
        w     == IF after = {} THEN Len(line) + 1 ELSE Min(after)
        start == IF w <= Len(line) /\ line[w] \notin {"#", "\"", "'", "[", "{"}
                 THEN w
                 ELSE IF w - 1 > eq THEN w - 1 ELSE 0
        hs    == {i \in (start + 1)..Len(line) : line[i] = "#"}
        h     == IF hs = {} THEN Len(line) + 1 ELSE Min(hs)
        body  == {i \in start..(h - 1) : ~IsSpace(line[i])}
        end   == IF body = {} THEN start
                 ELSE CHOOSE i \in body : \A j \in body : j <= i
    IN  IF /\ c1 # 0
           /\ line[c1] # "#"
           /\ eq # 0
           /\ \E i \in (c1 + 1)..(eq - 1) : ~IsSpace(line[i])
           /\ start # 0
           /\ \A i \in (h + 1)..Len(line) : ~IsLineTerminator(line[i])
        THEN [matched |-> TRUE,
              lhs     |-> SubSeq(line, 1, start - 1),
              rawVal  |-> SubSeq(line, start, end),
              tail    |-> SubSeq(line, end + 1, Len(line))]
        ELSE NoMatch

\* the callback of lines.map
RelaxLine(line) ==
    IF MatchSectionHeader(line).matched THEN line
    ELSE LET m == MatchAssign(line)
         IN  IF ~m.matched THEN line
             ELSE IF ~looksLikeBareString(m.rawVal) THEN line
             ELSE m.lhs \o quoteTomlString(Trim(m.rawVal)) \o m.tail

\* the text readTomlFile parses
relaxedOf(text) ==
    LET lines == Split(text)
    IN  Join([i \in 1..Len(lines) |-> RelaxLine(lines[i])], LF)

\* readTomlFile on a file holding text, for what toml.parse does with a
\* repeated key
readTomlFile(text, lax) ==
    [data |-> tomlParse(relaxedOf(text), lax), text |-> text]

----------------------------------------------------------------------------
(* handleSave: the text it writes and the preserved flag it returns, for     *)
(* what toml.parse(originalText) does (old, only used when patching is tried) *)

\* the branch on result.patchedAny, result being what walkPatch returned
PatchedOrFallback(req, result) ==
    IF result.patchedAny
    THEN [outText |-> result.text, preserved |-> TRUE, calls |-> result.calls]
    ELSE [outText |-> toToml(req.data), preserved |-> FALSE,
          calls |-> result.calls]

WalkedText(result) ==
    [outText |-> result.text, preserved |-> TRUE, calls |-> result.calls]

\* handleSave without the test of preserve: patching is tried for every text
handleSaveIgnoresPreserve(req, old) ==
    LET o == IF old = None THEN tomlParse(req.originalText, FALSE) ELSE old
    IN  IF req.originalText # <<>> /\ o # ParseError
        THEN PatchedOrFallback(req, walkPatch(req.originalText, o, req.data,
                                              <<>>))
        ELSE [outText |-> toToml(req.data), preserved |-> FALSE, calls |-> <<>>]

\* handleSave without the test of patchedAny: the walked text is written even
\* when no line was rewritten
handleSaveKeepsWalkedText(req, old) ==
    IF req.preserve /\ req.originalText # <<>>
    THEN IF old = ParseError
         THEN [outText |-> toToml(req.data), preserved |-> FALSE,
               calls |-> <<>>]
         ELSE WalkedText(walkPatch(req.originalText, old, req.data, <<>>))
    ELSE [outText |-> toToml(req.data), preserved |-> FALSE, calls |-> <<>>]

handleSave(req, old) ==
    IF req.preserve /\ req.originalText # <<>>
    THEN IF old = ParseError
         THEN [outText |-> toToml(req.data), preserved |-> FALSE,
               calls |-> <<>>]
         ELSE PatchedOrFallback(req, walkPatch(req.originalText, old, req.data,
                                              <<>>))
    ELSE [outText |-> toToml(req.data), preserved |-> FALSE, calls |-> <<>>]

----------------------------------------------------------------------------
(* std/path (posix), as far as the program uses it: paths are texts *)

SEP == "/"

\* the segments of a path, '.' and empty segments dropped and '..' resolved
\* against the segments before it
RECURSIVE NormalizeSegments(_, _)
NormalizeSegments(segs, acc) ==
    IF segs = <<>> THEN acc
    ELSE IF Head(segs) \in {<<>>, <<".">>}
    THEN NormalizeSegments(Tail(segs), acc)
    ELSE IF Head(segs) = <<".", ".">>
    THEN NormalizeSegments(Tail(segs), IF acc = <<>> THEN acc ELSE Front(acc))
    ELSE NormalizeSegments(Tail(segs), Append(acc, Head(segs)))

\* the absolute path of the segments
PathOf(segs) == <<SEP>> \o Join(segs, <<SEP>>)

\* path.resolve of an absolute path
pathResolve(p) == PathOf(NormalizeSegments(SplitOn(p, SEP), <<>>))

\* path.join(a, b) for an absolute a
pathJoin(a, b) == pathResolve(a \o <<SEP>> \o b)

\* path.dirname of a resolved path
pathDirname(p) ==
    LET segs == NormalizeSegments(SplitOn(p, SEP), <<>>)
    IN  IF segs = <<>> THEN PathOf(segs) ELSE PathOf(Front(segs))

\* s.startsWith(prefix)
StartsWith(s, prefix) == IsPrefix(prefix, s)

----------------------------------------------------------------------------
(* parseArgs and checkAuth *)

\* an unset authUser or authPass, a null saveAs, an absent header
NoCred == <<"undefined">>

\* !x for a string or an unset value
Falsy(x) == x = NoCred \/ x = <<>>

\* the directory of --root
Root == <<"/", "r">>

\* parseArgs for an --auth= argument holding cred (NoCred: no such argument)
parseArgs(cred) ==
    LET colons == {i \in 1..Len(cred) : cred[i] = ":"}
        idx    == IF colons = {} THEN -1 ELSE Min(colons) - 1
    IN  IF cred # NoCred /\ idx > 0
        THEN [root     |-> pathResolve(Root),
              authUser |-> SubSeq(cred, 1, idx),
              authPass |-> SubSeq(cred, idx + 2, Len(cred))]
        ELSE [root |-> pathResolve(Root), authUser |-> NoCred,
              authPass |-> NoCred]

\* checkAuth for the authorization header hdr: scheme is the text up to the
\* credentials, valid says whether atob accepts the rest, decoded is what
\* atob returns for it
checkAuth(cfg, hdr) ==
    IF Falsy(cfg.authUser) \/ Falsy(cfg.authPass) THEN TRUE
    ELSE IF ~StartsWith(hdr.scheme, <<"B", "a", "s", "i", "c", " ">>) THEN FALSE
    ELSE IF ~hdr.valid THEN FALSE
    ELSE LET parts == SplitOn(hdr.decoded, ":")
             u     == parts[1]
             p     == IF Len(parts) >= 2 THEN parts[2] ELSE NoCred
         IN  u = cfg.authUser /\ p = cfg.authPass

----------------------------------------------------------------------------
(* File helpers *)

\* what a throw leaves in place of a value
Thrown == <<"thrown">>

ensureInsideRoot(candidate, root) ==
    LET full           == pathResolve(candidate)
        normalizedRoot == pathResolve(root)
    IN  IF ~StartsWith(full, normalizedRoot \o <<SEP>>) /\ full # normalizedRoot
        THEN Thrown
        ELSE full

\* fileExists: fs maps the paths of the files, not of the directories
fileExists(fs, p) == p \in DOMAIN fs

\* the null of pickSourceFile
NoFile == <<"null">>

DotExample == <<".", "e", "x", "a", "m", "p", "l", "e">>
DotTemplate == <<".", "t", "e", "m", "p", "l", "a", "t", "e">>

\* pickSourceFile with the variants tried in the other order
pickSourceFileTemplateFirst(fs, requested) ==
    IF fileExists(fs, requested) THEN requested
    ELSE IF fileExists(fs, requested \o DotTemplate)
    THEN requested \o DotTemplate
    ELSE IF fileExists(fs, requested \o DotExample)
    THEN requested \o DotExample
    ELSE NoFile

pickSourceFile(fs, requested) ==
    IF fileExists(fs, requested) THEN requested
    ELSE IF fileExists(fs, requested \o DotExample)
    THEN requested \o DotExample
    ELSE IF fileExists(fs, requested \o DotTemplate)
    THEN requested \o DotTemplate
    ELSE NoFile

----------------------------------------------------------------------------
(* The HTTP handlers: the status they answer with and the file operations   *)
(* they make.  hdr is the request's authorization header.                    *)

\* one file operation: Deno.readTextFile(path), Deno.writeTextFile(path), or
\* Deno.mkdir(path) made for the file target
FsOp(kind, path, target) == [op |-> kind, path |-> path, target |-> target]

\* the path and the directories above it
AncestorsAndSelf(p) ==
    LET segs == NormalizeSegments(SplitOn(p, SEP), <<>>)
    IN  {PathOf(SubSeq(segs, 1, k)) : k \in 0..Len(segs)}

handleIndex(cfg, hdr) ==
    IF ~checkAuth(cfg, hdr) THEN [status |-> 401, ops |-> {}]
    ELSE [status |-> 200, ops |-> {}]

\* collectConfFiles lists the directories from the root down
handleBrowse(cfg, ds, hdr) ==
    IF ~checkAuth(cfg, hdr) THEN [status |-> 401, ops |-> {}]
    ELSE [status |-> 200,
          ops |-> {FsOp("readDir", d, d) :
                      d \in {e \in ds : cfg.root \in AncestorsAndSelf(e)}}]

\* lax: what toml.parse does with a repeated key.  A throw of
\* ensureInsideRoot is caught by serve, which answers 500.
handleEdit(cfg, fs, hdr, fileRel, lax) ==
    IF ~checkAuth(cfg, hdr) THEN [status |-> 401, ops |-> {}]
    ELSE IF Falsy(fileRel) THEN [status |-> 400, ops |-> {}]
    ELSE
    LET candidate == ensureInsideRoot(pathJoin(cfg.root, fileRel), cfg.root)
        source    == pickSourceFile(fs, candidate)
    IN  IF candidate = Thrown THEN [status |-> 500, ops |-> {}]
        ELSE IF source = NoFile THEN [status |-> 404, ops |-> {}]
        ELSE IF readTomlFile(fs[source], lax).data = ParseError
        THEN [status |-> 400, ops |-> {FsOp("read", source, source)}]
        ELSE [status |-> 200, ops |-> {FsOp("read", source, source)}]

Overwrite == <<"o", "v", "e", "r", "w", "r", "i", "t", "e">>
MissingSaveAs == <<"Missing saveAs name">>

\* the whole of handleSave for the payload p: fs and ds are the files and
\* the directories before, old is what toml.parse(originalText) returns
handleSaveRequest(cfg, fs, ds, hdr, p, old) ==
    IF ~checkAuth(cfg, hdr)
    THEN [status |-> 401, ops |-> {}, files |-> fs, dirs |-> ds]
    ELSE IF Falsy(p.fileRel) \/ Falsy(p.sourcePath) \/ Falsy(p.mode)
    THEN [status |-> 400, ops |-> {}, files |-> fs, dirs |-> ds]
    ELSE
    LET sourcePath    == ensureInsideRoot(pathJoin(cfg.root, p.sourcePath),
                                          cfg.root)
        defaultTarget == ensureInsideRoot(pathJoin(cfg.root, p.fileRel),
                                          cfg.root)
        targetPath    ==
            IF p.mode = Overwrite
            THEN (IF fileExists(fs, defaultTarget) THEN defaultTarget
                  ELSE sourcePath)
            ELSE IF Falsy(p.saveAs) THEN MissingSaveAs
            ELSE ensureInsideRoot(pathJoin(cfg.root, p.saveAs), cfg.root)
        dir           == pathDirname(targetPath)
        made          == ds \cup AncestorsAndSelf(dir)
        mkdir         == FsOp("mkdir", dir, targetPath)
    IN  IF sourcePath = Thrown \/ defaultTarget = Thrown
        THEN [status |-> 500, ops |-> {}, files |-> fs, dirs |-> ds]
        ELSE IF targetPath = MissingSaveAs
        THEN [status |-> 400, ops |-> {}, files |-> fs, dirs |-> ds]
        ELSE IF targetPath = Thrown
        THEN [status |-> 500, ops |-> {}, files |-> fs, dirs |-> ds]
        ELSE IF \E a \in AncestorsAndSelf(dir) : fileExists(fs, a)
        THEN [status |-> 500, ops |-> {}, files |-> fs, dirs |-> ds]
        ELSE IF targetPath \in made
        THEN [status |-> 500, ops |-> {mkdir}, files |-> fs, dirs |-> made]
        ELSE [status |-> 200,
              ops    |-> {mkdir, FsOp("write", targetPath, targetPath)},
              files  |-> [f \in DOMAIN fs \cup {targetPath} |->
                            IF f = targetPath THEN handleSave(p, old).outText
                            ELSE fs[f]],
              dirs   |-> made]

----------------------------------------------------------------------------
(* The documents and the edits of the model *)

KeyH == <<"h">>
KeyP == <<"p">>
KeyA == <<"a">>
KeyZ == <<"z">>

\* h = 1
LinePlain == <<"h", " ", "=", " ", "1">>
\*  h=2  # c
LineComment == <<" ", "h", "=", "2", " ", " ", "#", " ", "c">>
\* [a]
LineTableA == <<"[", "a", "]">>
\* [[c]]
LineTableArrayC == <<"[", "[", "c", "]", "]">>
\* "h" = 1
LineQuotedKey == <<"\"", "h", "\"", " ", "=", " ", "1">>
\* p = [1, 2]
LineArray == <<"p", " ", "=", " ", "[", "1", ",", " ", "2", "]">>

LinePool ==
    {LinePlain, LineComment, LineTableA, LineTableArrayC, LineQuotedKey,
     LineArray}

\* the documents: up to MaxLines lines of the pool
DocLines == UNION {[1..n -> LinePool] : n \in 0..MaxLines}

IsScalar(v) == v.kind \in {"null", "bool", "num", "str"}

\* the form's edits of a tree: a scalar set to another value ...
SetScalar(t, path, k, v) ==
    LET tbl == IF path = <<>> THEN t ELSE Get(t, path[1])
    IN  IF tbl.kind = "tab" /\ IsScalar(Get(tbl, k))
        THEN WithTableAt(t, path, Put(tbl, k, v))
        ELSE t
\* ... an array element removed
PopArray(t, k) ==
    LET a == Get(t, k)
    IN  IF a.kind = "arr" /\ a.items # <<>>
        THEN Put(t, k, Arr(Front(a.items)))
        ELSE t

\* a string of two lines
TwoLineString == Str(<<"x", "\n", "y">>)

ScalarEdits(t) ==
    {t, SetScalar(t, <<>>, KeyH, Num(9)), SetScalar(t, <<KeyA>>, KeyH, Num(9)),
     SetScalar(t, <<>>, KeyH, TwoLineString)}
StructuralEdits(t) ==
    {t, PopArray(t, KeyP), Remove(t, KeyH), Put(t, KeyZ, Num(1))}
Edits(t) == UNION {StructuralEdits(u) : u \in ScalarEdits(t)}

\* the trees submitted with a text that does not parse
BaseTrees == {Tab(<<>>), Tab(<< <<KeyH, Num(9)>> >>)}

DataFor(text) ==
    LET olds == ParseOutcomes(text) \ {ParseError}
    IN  IF olds = {} THEN BaseTrees ELSE UNION {Edits(o) : o \in olds}

Requests ==
    UNION {LET text == Join(ls, eol)
           IN  {[originalText |-> text, data |-> d, preserve |-> p] :
                    d \in DataFor(text), p \in BOOLEAN}
           : ls \in DocLines, eol \in {LF, CRLF}}

\* the arguments of the direct calls of patchScalarInSection
PatchArgs ==
    {[text |-> Join(ls, eol), sectionPath |-> sp, key |-> KeyH, newValToml |-> lit] :
        ls \in DocLines, eol \in {LF, CRLF}, sp \in {<<>>, <<KeyA>>},
        lit \in {valueToTomlScalar(Num(9)), valueToTomlScalar(Str(<<"x">>))}}

----------------------------------------------------------------------------
(* Spec: one save request, handled by handleSave *)

\* no save request, no direct call of the patcher, of the serializer, of the
\* normalizer
NoSave ==
    /\ request = None
    /\ oldObj = None
    /\ outText = None
    /\ preserved = FALSE
    /\ calls = <<>>
NoPatch == pArgs = None /\ pRet = None
NoScalar == sArg = None /\ sRet = None
NoNorm == nText = None /\ relaxed = None /\ nData = None /\ nAgain = None
NoHttp ==
    /\ app = None
    /\ httpReq = None
    /\ files = None
    /\ dirs = {}
    /\ fsOps = {}
    /\ response = None
NoConc == clients = None

Init ==
    /\ pc = "recv"
    /\ request \in Requests
    /\ oldObj = None
    /\ outText = None
    /\ preserved = FALSE
    /\ calls = <<>>
    /\ NoPatch /\ NoScalar /\ NoNorm /\ NoHttp /\ NoConc

HandleSave ==
    /\ pc = "recv"
    /\ \E old \in (IF request.preserve /\ request.originalText # <<>>
                   THEN ParseOutcomes(request.originalText) ELSE {None}) :
          LET r == handleSave(request, old)
          IN  /\ oldObj' = old
              /\ outText' = r.outText
              /\ preserved' = r.preserved
              /\ calls' = r.calls
    /\ pc' = "done"
    /\ UNCHANGED <<request, patchVars, scalarVars, normVars, httpVars, concVars>>

Next == HandleSave

Spec == Init /\ [][Next]_vars

----------------------------------------------------------------------------
(* PatchSpec: one call of patchScalarInSection *)

PatchInit ==
    /\ pc = "call"
    /\ pArgs \in PatchArgs
    /\ pRet = None
    /\ NoSave /\ NoScalar /\ NoNorm /\ NoHttp /\ NoConc

PatchCall ==
    /\ pc = "call"
    /\ pRet' = patchScalarInSection(pArgs.text, pArgs.sectionPath, pArgs.key,
                                    pArgs.newValToml)
    /\ pc' = "returned"
    /\ UNCHANGED <<pArgs, saveVars, scalarVars, normVars, httpVars, concVars>>

PatchNext == PatchCall

PatchSpec == PatchInit /\ [][PatchNext]_vars

----------------------------------------------------------------------------
(* RewriteSpec: patchScalarInSection on a text whose line for the key holds  *)
(* a number or a quoted string, with or without an inline comment, and then  *)
(* the same call on the text it returned                                      *)

\* the parts of the line for the key: indentation, old value, the blanks
\* before the comment, the comment
RewriteParts ==
    [indent  : {<<>>, <<" ", " ">>},
     value   : {<<"1">>, <<"\"", "v", "\"">>, <<"\"", "a", "#", "b", "\"">>},
     gap     : {<<>>, <<" ", " ">>},
     comment : {<<>>, <<"#", " ", "c">>}]

RewriteLine(p) ==
    p.indent \o KeyH \o <<" ", "=", " ">> \o p.value \o p.gap \o p.comment

\* the key is in the root table or in the table a
RewriteArgs ==
    {[text |-> IF sp = <<>> THEN RewriteLine(p)
               ELSE Join(<<LineTableA, RewriteLine(p)>>, LF),
      sectionPath |-> sp, key |-> KeyH, newValToml |-> lit] :
        p \in RewriteParts, sp \in {<<>>, <<KeyA>>},
        lit \in {valueToTomlScalar(Num(9)), valueToTomlScalar(Str(<<"x">>)),
                 valueToTomlScalar(Str(<<"x", "#", "y">>))}}

RewriteInit ==
    /\ pc = "call"
    /\ pArgs \in RewriteArgs
    /\ pRet = None
    /\ NoSave /\ NoScalar /\ NoNorm /\ NoHttp /\ NoConc

\* the same instruction applied to the text the first call returned
PatchAgain ==
    /\ pc = "returned"
    /\ pRet.patched
    /\ pArgs' = [pArgs EXCEPT !.text = pRet.text]
    /\ pRet' = patchScalarInSection(pRet.text, pArgs.sectionPath, pArgs.key,
                                    pArgs.newValToml)
    /\ pc' = "again"
    /\ UNCHANGED <<saveVars, scalarVars, normVars, httpVars, concVars>>

RewriteNext == PatchCall \/ PatchAgain

RewriteSpec == RewriteInit /\ [][RewriteNext]_vars

----------------------------------------------------------------------------
(* ScalarSpec: one call of valueToTomlScalar on a scalar value *)

StrChars == {"a", "\\", "\"", "\n"}

ScalarValues ==
    {Null, Bool(TRUE), Bool(FALSE), NonFinite(0), NonFinite(1), NonFinite(-1)}
      \cup {Num(n) : n \in (0 - MaxNum)..MaxNum}
      \cup {Str(s) : s \in UNION {[1..n -> StrChars] : n \in 0..MaxStrLen}}

\* the values that are no scalar: arrays, tables and the absent value
CompositeValues ==
    {Undefined, Arr(<<>>), Arr(<<Num(1)>>), Tab(<<>>),
     Tab(<< <<KeyH, Num(1)>> >>)}

ScalarInit ==
    /\ pc = "scalar"
    /\ sArg \in ScalarValues \cup CompositeValues
    /\ sRet = None
    /\ NoSave /\ NoPatch /\ NoNorm /\ NoHttp /\ NoConc

Serialize ==
    /\ pc = "scalar"
    /\ sRet' = valueToTomlScalar(sArg)
    /\ pc' = "serialized"
    /\ UNCHANGED <<sArg, saveVars, patchVars, normVars, httpVars, concVars>>

ScalarNext == Serialize

ScalarSpec == ScalarInit /\ [][ScalarNext]_vars

----------------------------------------------------------------------------
(* NormSpec: readTomlFile on a file whose values are all valid TOML literals *)

\* ab = 12
NormInt ==
    <<"a", "b", " ", "=", " ", "1", "2">>
\* ab = "x"  # c
NormString ==
    <<"a", "b", " ", "=", " ", "\"", "x", "\"", " ", " ", "#", " ", "c">>
\* ab = true
NormBool ==
    <<"a", "b", " ", "=", " ", "t", "r", "u", "e">>
\* ab = -1.5e3
NormFloat ==
    <<"a", "b", " ", "=", " ", "-", "1", ".", "5", "e", "3">>
\* ab = 1979-05-27T07:32:00Z
NormDate ==
    <<"a", "b", " ", "=", " ", "1", "9", "7", "9", "-", "0", "5", "-", "2",
      "7", "T", "0", "7", ":", "3", "2", ":", "0", "0", "Z">>
\* ab = [1, 2]
NormArray ==
    <<"a", "b", " ", "=", " ", "[", "1", ",", " ", "2", "]">>
\* ab = {k = 1}
NormInlineTable ==
    <<"a", "b", " ", "=", " ", "{", "k", " ", "=", " ", "1", "}">>
\* [ab]
NormHeader ==
    <<"[", "a", "b", "]">>
\* # k = v
NormCommentLine ==
    <<"#", " ", "k", " ", "=", " ", "v">>
\* ab = inf
NormInf ==
    <<"a", "b", " ", "=", " ", "i", "n", "f">>
\* ab = 0x1F
NormHex ==
    <<"a", "b", " ", "=", " ", "0", "x", "1", "F">>

NormLinePool ==
    {NormInt, NormString, NormBool, NormFloat,
     NormDate, NormArray, NormInlineTable, NormHeader,
     NormCommentLine, NormInf, NormHex}

\* the files: up to MaxLines lines of the pool, ended by LF or by CRLF
NormTexts ==
    {Join(ls, eol) :
        ls \in UNION {[1..n -> NormLinePool] : n \in 0..MaxLines},
        eol \in {LF, CRLF}}

NormInit ==
    /\ pc = "read"
    /\ nText \in NormTexts
    /\ relaxed = None
    /\ nData = None
    /\ nAgain = None
    /\ NoSave /\ NoPatch /\ NoScalar /\ NoHttp /\ NoConc

ReadTomlFile ==
    /\ pc = "read"
    /\ relaxed' = relaxedOf(nText)
    /\ \E lax \in BOOLEAN : nData' = readTomlFile(nText, lax).data
    /\ pc' = "parsed"
    /\ UNCHANGED <<nText, nAgain, saveVars, patchVars, scalarVars, httpVars,
                   concVars>>

NormNext == ReadTomlFile

NormSpec == NormInit /\ [][NormNext]_vars

----------------------------------------------------------------------------
(* BareSpec: the normalizer on one assignment line whose value is a bare     *)
(* string, and on its own output                                             *)

\* the parts of the line: indentation, key, '=' with its blanks, value, and
\* the blanks and comment after the value
BareIndents == {<<>>, <<" ", " ">>}
BareKeys == {<<"k">>, <<"a", "b">>, <<"a", ".", "b">>}
BareSeps == {<<" ", "=", " ">>, <<"=">>}
BareValues ==
    {<<"v">>, <<"x", " ", "y">>, <<"a", "\\", "b">>,
     <<"s", "a", "y", " ", "\"", "h", "i", "\"">>, <<"i", "t", "'", "s">>}
BareTails == {<<>>, <<" ", " ", "#", " ", "c">>, <<"#", "c">>}

BareParts ==
    [indent : BareIndents, key : BareKeys, sep : BareSeps,
     value : BareValues, tail : BareTails]

BareLine(p) == p.indent \o p.key \o p.sep \o p.value \o p.tail

BareInit ==
    /\ pc = "line"
    /\ nText \in {BareLine(p) : p \in BareParts}
    /\ relaxed = None
    /\ nData = None
    /\ nAgain = None
    /\ NoSave /\ NoPatch /\ NoScalar /\ NoHttp /\ NoConc

Relax ==
    /\ pc = "line"
    /\ relaxed' = relaxedOf(nText)
    /\ pc' = "relaxed"
    /\ UNCHANGED <<nText, nData, nAgain, saveVars, patchVars, scalarVars,
                   httpVars, concVars>>

RelaxAgain ==
    /\ pc = "relaxed"
    /\ nAgain' = relaxedOf(relaxed)
    /\ pc' = "again"
    /\ UNCHANGED <<nText, relaxed, nData, saveVars, patchVars, scalarVars,
                   httpVars, concVars>>

BareNext == Relax \/ RelaxAgain

BareSpec == BareInit /\ [][BareNext]_vars

----------------------------------------------------------------------------
(* EditSpec: a file is opened for editing, the form is changed and saved:    *)
(* readTomlFile in handleEdit, the page's save(kind), then handleSave         *)

\* ab = v
EditBare == <<"a", "b", " ", "=", " ", "v">>
\* ab = "v"
EditQuoted == <<"a", "b", " ", "=", " ", "\"", "v", "\"">>

EditLinePool == {LinePlain, LineComment, LineTableA, EditBare, EditQuoted}

\* the lines x and y assign the same key
SameKey(x, y) ==
    \/ {x, y} \subseteq {LinePlain, LineComment}
    \/ {x, y} \subseteq {EditBare, EditQuoted}

\* no key twice in a table and no table twice: what toml.parse accepts
NoRepeat(ls) ==
    \A i, j \in 1..Len(ls) :
        i < j => /\ ~(ls[i] = LineTableA /\ ls[j] = LineTableA)
                 /\ SameKey(ls[i], ls[j])
                      => \E k \in (i + 1)..(j - 1) : ls[k] = LineTableA

\* the files: up to MaxLines lines of the pool
EditTexts ==
    {Join(ls, eol) :
        ls \in {l \in UNION {[1..n -> EditLinePool] : n \in 1..MaxLines} :
                   NoRepeat(l)},
        eol \in {LF, CRLF}}

EditInit ==
    /\ pc = "file"
    /\ nText \in EditTexts
    /\ relaxed = None
    /\ nData = None
    /\ nAgain = None
    /\ request = None
    /\ oldObj = None
    /\ outText = None
    /\ preserved = FALSE
    /\ calls = <<>>
    /\ NoPatch /\ NoScalar /\ NoHttp /\ NoConc

\* handleEdit from readTomlFile on: the page is built from data and text, or
\* the answer is 400 when toml.parse throws
OpenEdit ==
    /\ pc = "file"
    /\ relaxed' = relaxedOf(nText)
    /\ nData' = readTomlFile(nText, FALSE).data
    /\ pc' = IF readTomlFile(nText, FALSE).data = ParseError
             THEN "rejected" ELSE "form"
    /\ UNCHANGED <<nText, nAgain, saveVars, patchVars, scalarVars, httpVars,
                   concVars>>

\* the user changes the form and saves: the payload holds the text of the
\* page's hidden field and the form's data
SubmitForm ==
    /\ pc = "form"
    /\ \E d \in Edits(nData), p \in BOOLEAN :
          request' = [originalText |-> readTomlFile(nText, FALSE).text,
                      data |-> d, preserve |-> p]
    /\ pc' = "recv"
    /\ UNCHANGED <<oldObj, outText, preserved, calls, patchVars, scalarVars,
                   normVars, httpVars, concVars>>

EditNext == OpenEdit \/ SubmitForm \/ HandleSave

EditSpec == EditInit /\ [][EditNext]_vars

----------------------------------------------------------------------------
(* ServeSpec: one HTTP request to the server, on a disk with files inside   *)
(* and outside the root                                                      *)

\* relative paths a request names: a file of the root, a file above the
\* root, a file of a sibling directory whose name starts with the root's,
\* the root itself, the example of the file, a file of a new directory
RelA == <<"a">>
RelUp == <<".", ".", "/", "x">>
RelSibling == <<".", ".", "/", "r", "x", "/", "a">>
RelDot == <<".">>
RelExample == <<"a", ".", "e", "x", "a", "m", "p", "l", "e">>
RelNew == <<"d", "/", "b">>

\* a text toml.parse rejects
BadDoc == <<"h", " ", "=">>

TemplateOfA == pathJoin(Root, RelA) \o DotTemplate

InRootFiles ==
    {pathJoin(Root, RelA), pathJoin(Root, RelA) \o DotExample, TemplateOfA}
OutsideFiles ==
    {pathResolve(Root) \o DotExample, pathJoin(Root, RelUp),
     pathJoin(Root, RelSibling)}

Disks ==
    {[f \in S \cup OutsideFiles |->
         IF f = TemplateOfA THEN BadDoc ELSE LinePlain] :
        S \in SUBSET InRootFiles}

InitialDirs ==
    {PathOf(<<>>), pathResolve(Root), pathDirname(pathJoin(Root, RelSibling))}

\* the --auth= arguments: none, user and password, a password with a colon,
\* an empty password
AuthArgs == {NoCred, <<"u", ":", "p">>, <<"u", ":", "p", ":", "q">>, <<"u", ":">>}

BasicScheme == <<"B", "a", "s", "i", "c", " ">>

Headers ==
    {[scheme |-> <<>>, valid |-> FALSE, decoded |-> <<>>],
     [scheme |-> BasicScheme, valid |-> TRUE, decoded |-> <<"u", ":", "p">>],
     [scheme |-> BasicScheme, valid |-> TRUE, decoded |-> <<"u", ":", "p", ":", "q">>],
     [scheme |-> BasicScheme, valid |-> FALSE, decoded |-> <<>>],
     [scheme |-> <<"B", "e", "a", "r", "e", "r", " ">>, valid |-> TRUE, decoded |-> <<"u", ":", "p">>]}

SavePayloads ==
    {[fileRel |-> f, sourcePath |-> s, mode |-> m, saveAs |-> a,
      data |-> Tab(<< <<KeyH, Num(9)>> >>), preserve |-> TRUE,
      originalText |-> LinePlain] :
        f \in {<<>>, RelA, RelUp, RelDot},
        s \in {RelExample, RelSibling, RelDot},
        m \in {Overwrite, <<"s", "a", "v", "e", "A", "s">>},
        a \in {NoCred, RelNew, RelUp}}

HttpRequests ==
    {[endpoint |-> e, authorization |-> h, file |-> NoCred, payload |-> None] :
        e \in {"/", "/browse", "/other"}, h \in Headers}
      \cup {[endpoint |-> "/edit", authorization |-> h, file |-> f,
             payload |-> None] :
               h \in Headers, f \in {NoCred, RelA, RelUp, RelSibling, RelDot}}
      \cup {[endpoint |-> "/save", authorization |-> h, file |-> NoCred,
             payload |-> p] : h \in Headers, p \in SavePayloads}

ServeInit ==
    /\ pc = "request"
    /\ app \in {parseArgs(c) : c \in AuthArgs}
    /\ httpReq \in HttpRequests
    /\ files \in Disks
    /\ dirs = InitialDirs
    /\ fsOps = {}
    /\ response = None
    /\ NoSave /\ NoPatch /\ NoScalar /\ NoNorm /\ NoConc

\* the answer of a handler that writes no file
Answer(r) ==
    /\ response' = [status |-> r.status]
    /\ fsOps' = r.ops
    /\ pc' = "responded"
    /\ UNCHANGED <<app, httpReq, files, dirs, saveVars, patchVars, scalarVars,
                   normVars, concVars>>

ServeIndex ==
    /\ pc = "request"
    /\ httpReq.endpoint = "/"
    /\ Answer(handleIndex(app, httpReq.authorization))

ServeBrowse ==
    /\ pc = "request"
    /\ httpReq.endpoint = "/browse"
    /\ Answer(handleBrowse(app, dirs, httpReq.authorization))

ServeEdit ==
    /\ pc = "request"
    /\ httpReq.endpoint = "/edit"
    /\ \E lax \in BOOLEAN :
          Answer(handleEdit(app, files, httpReq.authorization, httpReq.file,
                            lax))

\* the answer of handleSave
AnswerSave(r) ==
    /\ response' = [status |-> r.status]
    /\ fsOps' = r.ops
    /\ files' = r.files
    /\ dirs' = r.dirs
    /\ pc' = "responded"
    /\ UNCHANGED <<app, httpReq, saveVars, patchVars, scalarVars, normVars,
                   concVars>>

ServeSave ==
    /\ pc = "request"
    /\ httpReq.endpoint = "/save"
    /\ \E old \in ParseOutcomes(httpReq.payload.originalText) :
          AnswerSave(handleSaveRequest(app, files, dirs, httpReq.authorization,
                                       httpReq.payload, old))

ServeNotFound ==
    /\ pc = "request"
    /\ httpReq.endpoint \notin {"/", "/browse", "/edit", "/save"}
    /\ Answer([status |-> 404, ops |-> {}])

ServeNext ==
    \/ ServeIndex
    \/ ServeBrowse
    \/ ServeEdit
    \/ ServeSave
    \/ ServeNotFound

ServeSpec == ServeInit /\ [][ServeNext]_vars

----------------------------------------------------------------------------
(* ConcSpec: two browser sessions that open and save the same file.  A save *)
(* is two steps: the handler runs up to the call of Deno.writeTextFile, and  *)
(* the write completes.                                                      *)

Sessions == {1, 2}

\* the file both sessions edit
TargetFile == pathJoin(Root, RelA)

NoHeader == [scheme |-> <<>>, valid |-> FALSE, decoded |-> <<>>]

\* the texts the file starts with
ConcTexts ==
    {Join(<<LinePlain, LineTableA, LinePlain>>, LF),
     Join(<<LineComment, LineTableA, LinePlain>>, LF),
     Join(<<LineTableA, LinePlain, LineArray>>, LF)}

\* what the user of session c changes in the form: the first one the key h
\* of the root, the second one the key h of the table a
ClientEdit(c, tree, v) ==
    IF c = 1 THEN SetScalar(tree, <<>>, KeyH, v)
    ELSE SetScalar(tree, <<KeyA>>, KeyH, v)

\* formPayload with the text the file holds when the save is posted, in
\* place of the text the page was loaded with
formPayloadCurrentText(sess) ==
    [fileRel |-> RelA, sourcePath |-> RelA, mode |-> Overwrite,
     saveAs |-> NoCred, data |-> sess.data, preserve |-> sess.preserve,
     originalText |-> files[TargetFile]]

\* the edit page's save(kind): the payload it posts, from the hidden fields
\* and the form of the session
formPayload(sess) ==
    [fileRel |-> RelA, sourcePath |-> RelA, mode |-> Overwrite,
     saveAs |-> NoCred, data |-> sess.data, preserve |-> sess.preserve,
     originalText |-> sess.originalText]

ConcInit ==
    /\ pc = "sessions"
    /\ app = parseArgs(NoCred)
    /\ \E t \in ConcTexts : files = [f \in {TargetFile} |-> t]
    /\ dirs = InitialDirs
    /\ clients = [c \in Sessions |->
                    [pc |-> "idle", originalText |-> <<>>, data |-> Tab(<<>>),
                     preserve |-> FALSE, outText |-> <<>>, stale |-> FALSE,
                     wroteAt |-> 0]]
    /\ httpReq = None
    /\ fsOps = {}
    /\ response = None
    /\ NoSave /\ NoPatch /\ NoScalar /\ NoNorm

\* GET /edit answers the page with the file's text and data; the user edits
\* the form
Load(c) ==
    /\ clients[c].pc = "idle"
    /\ \E lax \in BOOLEAN, v \in {Num(7), Num(9)}, b \in BOOLEAN :
          /\ handleEdit(app, files, NoHeader, RelA, lax).status = 200
          /\ clients' = [clients EXCEPT ![c] =
                [@ EXCEPT !.pc = "editing",
                          !.originalText = readTomlFile(files[TargetFile],
                                                        lax).text,
                          !.data = ClientEdit(c, readTomlFile(files[TargetFile],
                                                              lax).data, v),
                          !.preserve = b]]
    /\ UNCHANGED <<pc, app, httpReq, files, dirs, fsOps, response, saveVars,
                   patchVars, scalarVars, normVars>>

\* the text handleSave hands to Deno.writeTextFile; stale records whether
\* the file no longer held the text of the request when the handler ran
IssuedWrite(c, r) ==
    /\ r.status = 200
    /\ clients' = [clients EXCEPT ![c] =
          [@ EXCEPT !.pc = "writing",
                    !.outText = r.files[TargetFile],
                    !.stale = (files[TargetFile] # clients[c].originalText)]]

\* POST /save: handleSave runs up to the call of Deno.writeTextFile
Post(c) ==
    /\ clients[c].pc = "editing"
    /\ \E old \in ParseOutcomes(formPayload(clients[c]).originalText) :
          IssuedWrite(c, handleSaveRequest(app, files, dirs, NoHeader,
                                           formPayload(clients[c]), old))
    /\ UNCHANGED <<pc, app, httpReq, files, dirs, fsOps, response, saveVars,
                   patchVars, scalarVars, normVars>>

\* the write of session c completes
WriteDone(c) ==
    /\ clients[c].pc = "writing"
    /\ files' = [files EXCEPT ![TargetFile] = clients[c].outText]
    /\ clients' = [clients EXCEPT ![c] =
          [@ EXCEPT !.pc = "done",
                    !.wroteAt = 1 + Cardinality({d \in Sessions :
                                                   clients[d].pc = "done"})]]
    /\ UNCHANGED <<pc, app, httpReq, dirs, fsOps, response, saveVars,
                   patchVars, scalarVars, normVars>>

ConcNext ==
    \E c \in Sessions :
        \/ Load(c)
        \/ Post(c)
        \/ WriteDone(c)

ConcSpec == ConcInit /\ [][ConcNext]_vars

----------------------------------------------------------------------------
(* What the claims speak of *)

\* line is an assignment to key: blanks, the key, blanks, '='
IsAssignmentOf(line, key) ==
    LET t    == Trim(line)
        rest == {i \in (Len(key) + 1)..Len(t) : ~IsSpace(t[i])}
    IN  /\ Len(t) > Len(key)
        /\ SubSeq(t, 1, Len(key)) = key
        /\ rest # {}
        /\ t[Min(rest)] = "="

\* the value segment of an assignment line: from the first non-blank after
\* '=' to the end of the value, before the blanks and the comment
ValueSpan(line) ==
    LET eq   == Min({i \in 1..Len(line) : line[i] = "="})
        from == Min({i \in (eq + 1)..Len(line) : ~IsSpace(line[i])})
        r    == ParseValue(SubSeq(line, from, Len(line)))
    IN  [from |-> from, to |-> from + r.next - 2]

\* the trimmed name of the section header the patcher's pattern sees above
\* line i; empty above the first header
RECURSIVE SectionAbove(_, _)
SectionAbove(lines, i) ==
    IF i = 1 THEN <<>>
    ELSE IF MatchSectionHeader(lines[i - 1]).matched
    THEN Trim(MatchSectionHeader(lines[i - 1]).name)
    ELSE SectionAbove(lines, i - 1)

\* the dotted name of the TOML header, of a table or of an array of tables,
\* that line i lies under; empty above the first header
RECURSIVE HeaderAbove(_, _)
HeaderAbove(lines, i) ==
    IF i = 1 THEN <<>>
    ELSE IF ParseLine(lines[i - 1]).t \in {"table", "tableArray"}
    THEN Join(ParseLine(lines[i - 1]).path, DOT)
    ELSE HeaderAbove(lines, i - 1)

\* the assignments to key in the section sectionPath
Occurrences(lines, sectionPath, key) ==
    {i \in 1..Len(lines) :
        /\ IsAssignmentOf(lines[i], key)
        /\ SectionAbove(lines, i) = Join(sectionPath, DOT)}

KindClass(v) == IF IsScalar(v) THEN "scalar" ELSE v.kind

\* new differs from old by a key added or removed, a change of kind, or an
\* edit of an array
RECURSIVE StructuralChange(_, _)
StructuralChange(old, new) ==
    \E i \in 1..Len(UnionKeys(old, new)) :
        LET o == Get(old, UnionKeys(old, new)[i])
            n == Get(new, UnionKeys(old, new)[i])
        IN  \/ KindClass(o) # KindClass(n)
            \/ (o.kind = "arr" /\ o # n)
            \/ (o.kind = "tab" /\ n.kind = "tab" /\ StructuralChange(o, n))

\* the <<path, key>> of the scalars of both trees whose literals differ
RECURSIVE ChangedScalars(_, _, _)
ChangedScalars(old, new, path) ==
    UNION {LET k == UnionKeys(old, new)[i]
               o == Get(old, k)
               n == Get(new, k)
           IN  IF IsScalar(o) /\ IsScalar(n)
               THEN (IF valueToTomlScalar(o) # valueToTomlScalar(n)
                     THEN {<<path, k>>} ELSE {})
               ELSE IF o.kind = "tab" /\ n.kind = "tab"
               THEN ChangedScalars(o, n, path \o <<k>>)
               ELSE {}
           : i \in 1..Len(UnionKeys(old, new))}

\* the value a literal denotes when it is read back as a document value
ParseLiteral(lit) ==
    LET doc == tomlParse(<<"v", " ", "=", " ">> \o lit, FALSE)
    IN  IF doc = ParseError THEN ParseError ELSE Get(doc, <<"v">>)

----------------------------------------------------------------------------
(* Claims *)

\* C1: a save with preserve=true whose new tree differs from the old tree by
\* a structural change writes the fallback rendering of the new tree and
\* returns preserved=false, whatever scalars could be patched.
C1_StructuralChangeFallsBack ==
    (pc = "done" /\ request.preserve /\ oldObj.kind = "tab"
        /\ StructuralChange(oldObj, request.data))
    => (outText = toToml(request.data) /\ ~preserved)

\* C2: a save with preserve=true and the new tree equal to the old tree
\* returns the original text unchanged and preserved=true.
C2_Idempotent ==
    (pc = "done" /\ request.preserve /\ oldObj.kind = "tab"
        /\ request.data = oldObj)
    => (outText = request.originalText /\ preserved)

\* C3: a rewrite by patchScalarInSection changes only the value segment of
\* the line: indentation, key, spacing around '=', the blanks before the
\* comment and the comment stay as they were.
C3_OnlyValueSegmentChanges ==
    (pc = "returned" /\ pRet.patched)
    => LET old == Split(pArgs.text)[pRet.idx]
           new == Split(pRet.text)[pRet.idx]
           sp  == ValueSpan(old)
       IN  new = SubSeq(old, 1, sp.from - 1) \o pArgs.newValToml
                   \o SubSeq(old, sp.to + 1, Len(old))

\* C4: every line a save rewrites for section path P lies under a header
\* named P joined by '.', before the next header (for the empty P: before
\* the first header); a key of another section is never altered.
C4_OnlyTargetSection ==
    pc = "done"
    => \A n \in 1..Len(calls) :
          calls[n].patched
          => HeaderAbove(Split(calls[n].text), calls[n].idx)
               = Join(calls[n].path, DOT)

\* C5: walkPatch passes a key to the patcher exactly when the key is a scalar
\* in both trees and its old and new literals differ.
C5_PatchIffLiteralDiffers ==
    (pc = "done" /\ oldObj.kind = "tab")
    => {<<calls[n].path, calls[n].key>> : n \in 1..Len(calls)}
         = ChangedScalars(oldObj, request.data, <<>>)

\* C6: a call of patchScalarInSection that misses returns patched=false and
\* a text identical to its input, line terminators included.
C6_MissLeavesTextUnchanged ==
    (pc = "returned" /\ ~pRet.patched) => pRet.text = pArgs.text

\* C7: of the assignments to the key in the target section, one call
\* rewrites the first and no other line, and patched is true exactly when
\* a line was rewritten.
C7_FirstOccurrenceOnly ==
    pc = "returned"
    => LET inL  == Split(pArgs.text)
           outL == Split(pRet.text)
           occ  == Occurrences(inL, pArgs.sectionPath, pArgs.key)
       IN  /\ pRet.patched = (occ # {})
           /\ Len(outL) = Len(inL)
           /\ pRet.idx = (IF occ = {} THEN 0 ELSE Min(occ))
           /\ \A i \in 1..Len(inL) : i # pRet.idx => outL[i] = inL[i]
           /\ pRet.patched
                => LET sp == ValueSpan(outL[pRet.idx])
                   IN  SubSeq(outL[pRet.idx], sp.from, sp.to) = pArgs.newValToml

\* C7 witness: a section with two assignments to the key; the first was
\* rewritten and the second is as it was
C7_Witness ==
    /\ pc = "returned"
    /\ pRet.patched
    /\ LET inL  == Split(pArgs.text)
           outL == Split(pRet.text)
           occ  == Occurrences(inL, pArgs.sectionPath, pArgs.key)
       IN  /\ Cardinality(occ) >= 2
           /\ outL[Min(occ)] # inL[Min(occ)]
           /\ \E j \in occ : j > Min(occ) /\ outL[j] = inL[j]

\* C8: with preserve=false the save writes the fallback rendering of the new
\* tree, returns preserved=false and calls the patcher for no key.
C8_NoPreserveIsFallback ==
    (pc = "done" /\ ~request.preserve)
    => (outText = toToml(request.data) /\ ~preserved /\ calls = <<>>)

\* C8 witness: preserve=false on a text that patching would have rewritten
C8_Witness ==
    /\ pc = "done"
    /\ ~request.preserve
    /\ outText = toToml(request.data)
    /\ tomlParse(request.originalText, FALSE) # ParseError
    /\ walkPatch(request.originalText, tomlParse(request.originalText, FALSE),
                 request.data, <<>>).patchedAny

\* C9: with preserve=true, when the original text does not parse or no call
\* of the patcher rewrote a line, the save writes the fallback rendering of
\* the new tree and returns preserved=false.
C9_NothingPatchedIsFallback ==
    (pc = "done" /\ request.preserve
        /\ (oldObj = ParseError \/ \A n \in 1..Len(calls) : ~calls[n].patched))
    => (outText = toToml(request.data) /\ ~preserved)

\* C9 witness: the patcher was called and every call missed
C9_Witness ==
    /\ pc = "done"
    /\ request.preserve
    /\ calls # <<>>
    /\ \A n \in 1..Len(calls) : ~calls[n].patched
    /\ outText = toToml(request.data)
    /\ outText # request.originalText
    /\ ~preserved

\* C10: the literal valueToTomlScalar produces for a scalar value, parsed as
\* a document value, is that value again.
C10_ScalarRoundTrip ==
    (pc = "serialized" /\ IsScalar(sArg)) => ParseLiteral(sRet) = sArg

\* the characters quoteTomlString escapes
IsEscaped(c) == c \in {"\\", "\""}

\* the position, in the quoted literal of s, of the character s[i]
QuotedPos(s, i) == 1 + i + Cardinality({j \in 1..i : IsEscaped(s[j])})

\* C11: valueToTomlScalar gives true/false for a boolean, the decimal text
\* for a finite number, 0 for a non-finite number, the double-quoted string
\* with every backslash and double quote preceded by a backslash for a
\* string, the text null for null, and the not-patchable signal for every
\* array, table or absent value.
C11_LiteralOfEachKind ==
    pc = "serialized"
    => CASE sArg.kind = "null" -> sRet = <<"n", "u", "l", "l">>
         [] sArg.kind = "bool" ->
              sRet = (IF sArg.b THEN <<"t", "r", "u", "e">>
                      ELSE <<"f", "a", "l", "s", "e">>)
         [] sArg.kind = "num" /\ ~sArg.finite -> sRet = <<"0">>
         [] sArg.kind = "num" /\ sArg.finite ->
              LET body == IF sArg.n < 0 THEN Tail(sRet) ELSE sRet
              IN  /\ sArg.n < 0 => Head(sRet) = "-"
                  /\ IsInteger(body)
                  /\ StringToNat(body) = (IF sArg.n < 0 THEN 0 - sArg.n
                                          ELSE sArg.n)
         [] sArg.kind = "str" ->
              LET s == sArg.s
              IN  /\ Len(sRet) = QuotedPos(s, Len(s)) + 1
                  /\ sRet[1] = "\"" /\ sRet[Len(sRet)] = "\""
                  /\ \A i \in 1..Len(s) :
                        /\ sRet[QuotedPos(s, i)] = s[i]
                        /\ IsEscaped(s[i]) => sRet[QuotedPos(s, i) - 1] = "\\"
         [] OTHER -> sRet = NotPatchable

\* C11 witness: a string holding a backslash and a double quote was
\* serialized, each of the two with a backslash before it
C11_Witness ==
    /\ pc = "serialized"
    /\ sArg.kind = "str"
    /\ \E i, j \in 1..Len(sArg.s) : sArg.s[i] = "\\" /\ sArg.s[j] = "\""
    /\ Len(sRet) = Len(sArg.s) + 4

\* C12: on a file whose assignment values are all valid literals, and on its
\* section headers and comment lines, the normalizer returns every line as
\* it was, so the text it hands to the parser parses to the same tree as the
\* file's text.
C12_NormalizerNonInterference ==
    pc = "parsed"
    => /\ Split(relaxed) = Split(nText)
       /\ \A lax \in BOOLEAN : tomlParse(relaxed, lax) = tomlParse(nText, lax)

\* the indices of the lines the calls of one save rewrote
RewrittenLines == {calls[n].idx : n \in {m \in 1..Len(calls) : calls[m].patched}}

\* C13: the text a save patched has as many lines as the original text, and
\* every line but those a call of the patcher rewrote is the original line,
\* whatever literal the serializer produced.
C13_LineStructureKept ==
    (pc = "done" /\ preserved)
    => LET inL  == Split(request.originalText)
           outL == Split(outText)
       IN  /\ Len(outL) = Len(inL)
           /\ \A i \in 1..Len(inL) : i \notin RewrittenLines => outL[i] = inL[i]

\* p is the root directory or lies below it
InsideRoot(p) == pathResolve(Root) \in AncestorsAndSelf(p)

\* the relative path rel, joined to the root, leaves the root
LeavesRoot(rel) == ~InsideRoot(pathJoin(Root, rel))

\* the request names a path that leaves the root: the file of /edit; the
\* file, the source path or (for a Save As) the Save As name of /save
RequestLeavesRoot ==
    \/ /\ httpReq.endpoint = "/edit"
       /\ httpReq.file # NoCred
       /\ LeavesRoot(httpReq.file)
    \/ /\ httpReq.endpoint = "/save"
       /\ \/ LeavesRoot(httpReq.payload.fileRel)
          \/ LeavesRoot(httpReq.payload.sourcePath)
          \/ /\ httpReq.payload.mode # Overwrite
             /\ httpReq.payload.saveAs # NoCred
             /\ LeavesRoot(httpReq.payload.saveAs)

\* C14: every file /edit reads, and every file /save writes or makes
\* directories for, is the root or lies below it; a request that names a
\* path leaving the root causes no read, no directory creation, no write.
C14_RootSandbox ==
    pc = "responded"
    => /\ \A o \in fsOps :
             o.op \in {"read", "mkdir", "write"} => InsideRoot(o.target)
       /\ RequestLeavesRoot => fsOps = {}

\* the header carries, in the Basic scheme, exactly the configured user, a
\* colon and the configured password
HeaderIsConfigured ==
    /\ httpReq.authorization.scheme = BasicScheme
    /\ httpReq.authorization.valid
    /\ httpReq.authorization.decoded = app.authUser \o <<":">> \o app.authPass

\* C15: on a server started with --auth=user:pass, a request to /, /browse,
\* /edit or /save is served exactly when its Basic authorization header
\* decodes to the configured user and password, whatever password --auth
\* accepted; every other request is answered 401 and makes no file operation.
C15_ServedIffCredentials ==
    (/\ pc = "responded"
     /\ app.authUser # NoCred
     /\ httpReq.endpoint \in {"/", "/browse", "/edit", "/save"})
    => /\ (response.status # 401) = HeaderIsConfigured
       /\ response.status = 401 => fsOps = {}

\* the paths the request's handler read, and those it wrote
ReadPaths == {o.path : o \in {q \in fsOps : q.op = "read"}}
WrittenPaths == {o.path : o \in {q \in fsOps : q.op = "write"}}

\* the requested path and its variants, in the order they are to be tried
OpenCandidates(rel) ==
    <<pathJoin(Root, rel), pathJoin(Root, rel) \o DotExample,
      pathJoin(Root, rel) \o DotTemplate>>

\* C16: /edit opens the requested file if it exists, else its .example
\* variant, else its .template variant, else answers not found; a save with
\* mode overwrite writes the requested file if it exists and the source file
\* otherwise; a Save As writes the Save As path only, and without a Save As
\* name it answers an error and writes no file.
C16_TargetSelection ==
    pc = "responded"
    => /\ (/\ httpReq.endpoint = "/edit"
           /\ httpReq.file # NoCred
           /\ response.status \notin {401, 500})
          => LET cands    == OpenCandidates(httpReq.file)
                 existing == {i \in 1..3 : cands[i] \in DOMAIN files}
             IN  IF existing = {}
                 THEN response.status = 404 /\ ReadPaths = {}
                 ELSE ReadPaths = {cands[Min(existing)]}
       /\ (httpReq.endpoint = "/save" /\ response.status = 200)
          => LET p == httpReq.payload
             IN  WrittenPaths =
                   {IF p.mode # Overwrite THEN pathJoin(Root, p.saveAs)
                    ELSE IF pathJoin(Root, p.fileRel) \in DOMAIN files
                    THEN pathJoin(Root, p.fileRel)
                    ELSE pathJoin(Root, p.sourcePath)}
       /\ (/\ httpReq.endpoint = "/save"
           /\ httpReq.payload.mode # Overwrite
           /\ httpReq.payload.saveAs = NoCred)
          => response.status # 200 /\ WrittenPaths = {}

\* C16 witness: the requested file does not exist, its example and its
\* template do, and /edit opened the example
C16_Witness ==
    /\ pc = "responded"
    /\ httpReq.endpoint = "/edit"
    /\ httpReq.file = RelA
    /\ DOMAIN files \cap InRootFiles = InRootFiles \ {pathJoin(Root, RelA)}
    /\ ReadPaths = {pathJoin(Root, RelA) \o DotExample}
    /\ response.status = 200

\* the sessions whose write has completed, and the one that completed last
DoneSessions == {c \in Sessions : clients[c].pc = "done"}
LastWriter ==
    CHOOSE c \in DoneSessions :
        \A d \in DoneSessions : clients[d].wroteAt <= clients[c].wroteAt

\* C17: two saves of one file run with no lock and no version check: each
\* computes its output from the original text its own request carries, not
\* from what the file holds, and the file ends with the output of the write
\* that completed last.
C17_LastWriteWins ==
    pc = "sessions"
    => /\ \A c \in Sessions :
             clients[c].pc \in {"writing", "done"}
             => \E old \in ParseOutcomes(clients[c].originalText) :
                   clients[c].outText =
                     handleSave([originalText |-> clients[c].originalText,
                                 data         |-> clients[c].data,
                                 preserve     |-> clients[c].preserve],
                                old).outText
       /\ DoneSessions # {}
          => files[TargetFile] = clients[LastWriter].outText

\* C17 witness: both sessions loaded the same text; the first one's write
\* changed the file; the second one's handler then patched the text it was
\* loaded with, its write completed last, and the first one's edit of the
\* root key h is not in the file
C17_Witness ==
    /\ pc = "sessions"
    /\ DoneSessions = Sessions
    /\ clients[1].wroteAt = 1
    /\ clients[2].wroteAt = 2
    /\ clients[1].originalText = clients[2].originalText
    /\ clients[1].outText # clients[1].originalText
    /\ clients[2].stale
    /\ files[TargetFile] = clients[2].outText
    /\ Get(clients[1].data, KeyH) = Num(9)
    /\ Get(tomlParse(clients[1].outText, FALSE), KeyH) = Num(9)
    /\ Get(tomlParse(files[TargetFile], FALSE), KeyH) # Num(9)

\* the lines matched as section headers
HeaderLines(lines) ==
    {i \in 1..Len(lines) : MatchSectionHeader(lines[i]).matched}

\* where the scan enters the target section: 0 for the root, else the first
\* header naming it (past the end when there is none)
EnterAt(lines, sectionPath) ==
    LET named == {i \in HeaderLines(lines) :
                     Trim(MatchSectionHeader(lines[i]).name)
                       = Join(sectionPath, DOT)}
    IN  IF sectionPath = <<>> THEN 0
        ELSE IF named = {} THEN Len(lines) + 1
        ELSE Min(named)

\* the first header after the scan entered the target section
LeaveAt(lines, sectionPath) ==
    LET later == {i \in HeaderLines(lines) : i > EnterAt(lines, sectionPath)}
    IN  IF later = {} THEN Len(lines) + 1 ELSE Min(later)

\* C18: when the scan has entered the target section and meets another
\* section header before any line matched the key, the call returns
\* patched=false with every line as it was; no line after that header is
\* rewritten, even if a later header names the target section again.
C18_ScanStopsAtNextHeader ==
    pc = "returned"
    => LET lines == Split(pArgs.text)
           enter == EnterAt(lines, pArgs.sectionPath)
           leave == LeaveAt(lines, pArgs.sectionPath)
       IN  (/\ enter <= Len(lines)
            /\ leave <= Len(lines)
            /\ \A i \in (enter + 1)..(leave - 1) :
                  ~MatchKey(lines[i], pArgs.key).matched)
           => (~pRet.patched /\ Split(pRet.text) = lines)

\* the instructions of one save in tree-traversal order, as <<path, key>>:
\* the keys that are scalars in both trees, under tables that are in both
RECURSIVE Instructions(_, _, _)
Instructions(old, new, path) ==
    LET keys == UnionKeys(old, new)
        upTo[i \in 0..Len(keys)] ==
            IF i = 0 THEN <<>>
            ELSE LET o == Get(old, keys[i])
                     n == Get(new, keys[i])
                 IN  upTo[i - 1] \o
                       (IF IsScalar(o) /\ IsScalar(n)
                        THEN << <<path, keys[i]>> >>
                        ELSE IF o.kind = "tab" /\ n.kind = "tab"
                        THEN Instructions(o, n, path \o <<keys[i]>>)
                        ELSE <<>>)
    IN  upTo[Len(keys)]

\* the accumulated text after the n-th call of a save
TextAfter(n) ==
    patchScalarInSection(calls[n].text, calls[n].path, calls[n].key,
                         calls[n].lit).text

\* a save that tried to patch: the original text parsed and was walked
Walked == pc = "done" /\ oldObj \notin {None, ParseError}

\* C19: within one save the instructions are applied in tree-traversal order
\* to one accumulating text: every instruction is attempted whether or not an
\* earlier one missed, a miss leaves the accumulated text as it was, and each
\* instruction works on the text left by the one before it.
C19_AccumulatingText ==
    Walked
    => /\ [n \in 1..Len(calls) |-> <<calls[n].path, calls[n].key>>]
            = Instructions(oldObj, request.data, <<>>)
       /\ \A n \in 1..Len(calls) :
             /\ calls[n].text = (IF n = 1 THEN request.originalText
                                 ELSE TextAfter(n - 1))
             /\ ~calls[n].patched => TextAfter(n) = calls[n].text
       /\ (preserved /\ calls # <<>>) => outText = TextAfter(Len(calls))

\* the table reached from t through the keys of path, Undefined when a key on
\* the way is no table
RECURSIVE SubTable(_, _)
SubTable(t, path) ==
    IF path = <<>> THEN t
    ELSE LET c == Get(t, Head(path))
         IN  IF c.kind = "tab" THEN SubTable(c, Tail(path)) ELSE Undefined

\* C20: every call of the patcher is for a key that is a scalar in both
\* trees, under a section path that names a table in both trees: no call is
\* made for an array, a table, a key that changes between scalar, array and
\* table, or a key present in one tree only.
C20_OnlyScalarsInBothTrees ==
    Walked
    => \A n \in 1..Len(calls) :
          LET o == SubTable(oldObj, calls[n].path)
              d == SubTable(request.data, calls[n].path)
          IN  /\ o.kind = "tab" /\ d.kind = "tab"
              /\ IsScalar(Get(o, calls[n].key))
              /\ IsScalar(Get(d, calls[n].key))

\* a save that patched a scalar of a sub-table and made no call for a root
\* key that is an array, was added or was removed
C20_Witness ==
    /\ Walked
    /\ \E n \in 1..Len(calls) : calls[n].path # <<>> /\ calls[n].patched
    /\ \E i \in 1..Len(UnionKeys(oldObj, request.data)) :
          LET k == UnionKeys(oldObj, request.data)[i]
          IN  /\ \/ Get(oldObj, k).kind \in {"arr", "undefined"}
                 \/ Get(request.data, k).kind \in {"arr", "undefined"}
              /\ \A n \in 1..Len(calls) :
                    calls[n].path = <<>> => calls[n].key # k

\* C21: a line `key = value [# comment]` whose value is a non-empty bare
\* string comes out of the normalizer as the unchanged left-hand side, the
\* value in double quotes with backslashes and double quotes escaped, and the
\* unchanged blanks and comment after it, for a key of any length; the
\* normalizer changes nothing in its own output.
C21_BareStringQuoted ==
    /\ pc \in {"relaxed", "again"}
       => \A p \in BareParts :
             BareLine(p) = nText
             => relaxed = p.indent \o p.key \o p.sep
                            \o <<"\"">>
                            \o ReplaceAll(ReplaceAll(p.value, "\\",
                                                     <<"\\", "\\">>),
                                          "\"", <<"\\", "\"">>)
                            \o <<"\"">> \o p.tail
    /\ pc = "again" => nAgain = relaxed

\* C22: on a preserve=true save of a document that opened for editing, the
\* old tree handed to the differ is the tree the edit form was built from
\* (parsed from the normalized text), the patcher works on the original text,
\* and the save does not end in the parse-failure fallback.
C22_SaveUsesNormalizedTree ==
    (pc = "done" /\ nData # None /\ request.preserve)
    => /\ oldObj = nData
       /\ calls # <<>> => calls[1].text = nText

\* tree t holds, for every key that is a scalar in both the old and the new
\* tree of the save, the value of the new tree
CarriesNewScalars(t) ==
    /\ t # ParseError
    /\ \A n \in 1..Len(Instructions(oldObj, request.data, <<>>)) :
          LET path == Instructions(oldObj, request.data, <<>>)[n][1]
              key  == Instructions(oldObj, request.data, <<>>)[n][2]
          IN  /\ SubTable(t, path).kind = "tab"
              /\ Get(SubTable(t, path), key)
                   = Get(SubTable(request.data, path), key)

\* C23: when a save returns preserved=true, the written text holds the new
\* tree's value for every key that is a scalar in both trees: no change of a
\* scalar is dropped because its own instruction missed while another
\* instruction of the save succeeded.
C23_PreservedTextCarriesNewTree ==
    (Walked /\ preserved)
    => \E t \in ParseOutcomes(outText) : CarriesNewScalars(t)

\* the lines a rewrite of the line made of parts p may leave: indentation,
\* key, ' = ', the new literal and the comment, with or without the blanks
\* that stood before the comment
RewrittenAs(p, lit) ==
    {p.indent \o KeyH \o <<" ", "=", " ">> \o lit \o p.comment,
     p.indent \o KeyH \o <<" ", "=", " ">> \o lit \o p.gap \o p.comment}

\* C24: after a successful rewrite the line is the original indentation, the
\* key, ' = ', the new literal and the original inline comment, with nothing
\* of the old value left, also when the old value is a quoted string holding
\* '#'; the same instruction applied to the result returns the same text.
C24_RewrittenLineExact ==
    /\ (pc = "returned" /\ pRet.patched)
       => \A p \in RewriteParts :
             RewriteLine(p) = Split(pArgs.text)[pRet.idx]
             => Split(pRet.text)[pRet.idx] \in RewrittenAs(p, pArgs.newValToml)
    /\ pc = "again" => pRet.text = pArgs.text

====
